---- MODULE Spec2Model ----
(***************************************************************************)
(* A state-machine model of the SchoolMate backend: the daily attendance   *)
(* register (attendance_service.py), the class-teacher assignment          *)
(* (teacher_service.py), the subject / optional-subject assignment         *)
(* (subject_service.py) and student registration (school_service.py),      *)
(* over the relational store the handlers read and write.                  *)
(*                                                                         *)
(* A request handler is one action in the sequential specifications; in    *)
(* the concurrent specifications a handler is split at its commit: the     *)
(* read step runs its reads and checks, the commit step flushes what the   *)
(* session holds and commits it.                                           *)
(***************************************************************************)
EXTENDS Integers, Sequences, FiniteSets, TLC

\* SQL NULL / Python None.
NULL == "NULL"

\* class SchoolUserRole
SCHOOL_SUPERADMIN == "school_superadmin"
SCHOOL_ADMIN == "school_admin"
TEACHER == "teacher"
STUDENT == "student"
PARENT == "parent"

\* class AttendanceStatus
PRESENT == "P"
ABSENT == "A"
HALF_DAY == "HD"
LEAVE == "L"

(***************************************************************************)
(* The universe of the model: two tenants, their classes and the users     *)
(* that exist when the model starts.                                       *)
(***************************************************************************)

\* Hours of the model's clock: datetime.utcnow() never passes MaxNow.
MaxNow == 60

\* Longest records list a request body carries.
MaxRecords == 2

\* school_classes rows: id -> school_id (class_name and section are not modelled).
school_classes == [cA |-> "S1", cB |-> "S1", cC |-> "S2"]

ClassIds == DOMAIN school_classes

\* Target dates of the model, as day numbers (day d starts at hour 24 * d).
Dates == {0, 1}

\* The school_users rows of the initial state.
InitialUsers == [sa1 |-> [role |-> SCHOOL_SUPERADMIN, school_id |-> "S1", class_id |-> NULL, is_active |-> TRUE, email |-> "sa1@x"], a1 |-> [role |-> SCHOOL_ADMIN, school_id |-> "S1", class_id |-> NULL, is_active |-> TRUE, email |-> "a1@x"], t1 |-> [role |-> TEACHER, school_id |-> "S1", class_id |-> NULL, is_active |-> TRUE, email |-> "t1@x"], t2 |-> [role |-> TEACHER, school_id |-> "S1", class_id |-> NULL, is_active |-> TRUE, email |-> "t2@x"], t3 |-> [role |-> TEACHER, school_id |-> "S2", class_id |-> NULL, is_active |-> TRUE, email |-> "t3@x"], s1 |-> [role |-> STUDENT, school_id |-> "S1", class_id |-> "cA", is_active |-> TRUE, email |-> "s1@x"], s2 |-> [role |-> STUDENT, school_id |-> "S1", class_id |-> "cA", is_active |-> TRUE, email |-> "s2@x"], s4 |-> [role |-> STUDENT, school_id |-> "S1", class_id |-> "cB", is_active |-> FALSE, email |-> "s4@x"], p1 |-> [role |-> PARENT, school_id |-> "S1", class_id |-> NULL, is_active |-> TRUE, email |-> "p1@x"]]

\* Ids a newly registered user can get (uuid4 of a new row).
FreshUserIds == {"s3", "u5"}

\* The id of the next new school_users row: the first one that is free.
NewUserIds(users) == IF "s3" \notin DOMAIN users THEN {"s3"} ELSE {"u5"} \ DOMAIN users

UserIds == DOMAIN InitialUsers \cup FreshUserIds

VARIABLES now, minute, tokens, school_users, class_teacher_id, isClassteacher, attendances, class_subjects, student_subjects, inflight, last, before

vars == <<now, minute, tokens, school_users, class_teacher_id, isClassteacher, attendances, class_subjects, student_subjects, inflight, last, before>>

\* The tables as a request finds them.
Snapshot == [school_users |-> school_users, class_teacher_id |-> class_teacher_id, isClassteacher |-> isClassteacher, attendances |-> attendances, class_subjects |-> class_subjects, student_subjects |-> student_subjects]

\* The log entry of a request: what was asked (body: the part of the request
\* the other fields do not hold), when, the HTTP status and the response body.
Log(op, caller, status, class, date, records, teacher, body, result) == [op |-> op, caller |-> caller, status |-> status, class_id |-> class, date |-> date, records |-> records, teacher_id |-> teacher, body |-> body, result |-> result, at |-> now]

NoRequest == [op |-> "none", caller |-> NULL, status |-> "none", class_id |-> NULL, date |-> -1, records |-> <<>>, teacher_id |-> NULL, body |-> NULL, result |-> NULL, at |-> -1]

\* get_current_user: the claims of the caller's token, as login wrote them.
CurrentUser(u) == [user_id |-> u, role |-> school_users[u].role, school_id |-> school_users[u].school_id]

(***************************************************************************)
(* Class-teacher assignment: teacher_service.py                            *)
(***************************************************************************)

\* The roles assign_class_teacher and unassign_class_teacher accept.
ClassTeacherRoles == {SCHOOL_ADMIN, SCHOOL_SUPERADMIN}

\* The conflict query dropped: no class ever conflicts.
ConflictingClasses_NoCheck(T, c) == {}

\* conflict_query: the other classes whose class_teacher_id is T.
ConflictingClasses(T, c) == {c2 \in ClassIds : class_teacher_id[c2] = T /\ c2 # c}

\* The checks of assign_class_teacher, in the handler's order.
AssignOutcome(cu, T, c) == IF cu.role \notin ClassTeacherRoles THEN "403" ELSE IF T \notin DOMAIN school_users \/ school_users[T].role # TEACHER \/ school_users[T].school_id # cu.school_id THEN "404" ELSE IF c \notin ClassIds \/ school_classes[c] # cu.school_id THEN "404" ELSE IF Cardinality(ConflictingClasses(T, c)) = 1 THEN "400" ELSE IF Cardinality(ConflictingClasses(T, c)) > 1 THEN "500" ELSE "200"

\* assign_class_teacher without the UPDATE that clears the flag of the
\* replaced class-teacher.
AssignFlags_KeepOld(flags, old, T) == [u \in DOMAIN flags |-> IF u = T THEN "true" ELSE flags[u]]

\* The two UPDATE school_users statements of assign_class_teacher; old is the
\* class_teacher_id the session loaded.
AssignFlags(flags, old, T) == [u \in DOMAIN flags |-> IF u = T THEN "true" ELSE IF old # NULL /\ old # T /\ u = old THEN "false" ELSE flags[u]]

\* The handler with the writes moved ahead of the conflict check and committed
\* even when the check refuses.
assign_class_teacher_WriteThenCheck(u, T, c) ==
    LET cu == CurrentUser(u)
        out == AssignOutcome(cu, T, c)
    IN  /\ before' = Snapshot
        /\ last' = Log("assign", u, out, c, -1, <<>>, T, NULL, NULL)
        /\ IF out \in {"200", "400"}
           THEN /\ isClassteacher' = AssignFlags(isClassteacher, class_teacher_id[c], T)
                /\ class_teacher_id' = [class_teacher_id EXCEPT ![c] = T]
           ELSE UNCHANGED <<isClassteacher, class_teacher_id>>
        /\ UNCHANGED <<now, minute, tokens, school_users, attendances, class_subjects, student_subjects, inflight>>

\* POST /teachers/assign-class-teacher, as one transaction.
assign_class_teacher(u, T, c) ==
    LET cu == CurrentUser(u)
        out == AssignOutcome(cu, T, c)
    IN  /\ before' = Snapshot
        /\ last' = Log("assign", u, out, c, -1, <<>>, T, NULL, NULL)
        /\ IF out = "200"
           THEN /\ isClassteacher' = AssignFlags(isClassteacher, class_teacher_id[c], T)
                /\ class_teacher_id' = [class_teacher_id EXCEPT ![c] = T]
           ELSE UNCHANGED <<isClassteacher, class_teacher_id>>
        /\ UNCHANGED <<now, minute, tokens, school_users, attendances, class_subjects, student_subjects, inflight>>

\* The checks of unassign_class_teacher, in the handler's order.
UnassignOutcome(cu, c) == IF cu.role \notin ClassTeacherRoles THEN "403" ELSE IF c \notin ClassIds \/ school_classes[c] # cu.school_id THEN "404" ELSE IF class_teacher_id[c] = NULL THEN "400" ELSE "200"

\* The UPDATE school_users statement of unassign_class_teacher.
UnassignFlags(flags, old) == [u \in DOMAIN flags |-> IF u = old THEN "false" ELSE flags[u]]

\* DELETE /teachers/unassign-class-teacher/{class_id}, as one transaction.
unassign_class_teacher(u, c) ==
    LET cu == CurrentUser(u)
        out == UnassignOutcome(cu, c)
    IN  /\ before' = Snapshot
        /\ last' = Log("unassign", u, out, c, -1, <<>>, NULL, NULL, NULL)
        /\ IF out = "200"
           THEN /\ isClassteacher' = UnassignFlags(isClassteacher, class_teacher_id[c])
                /\ class_teacher_id' = [class_teacher_id EXCEPT ![c] = NULL]
           ELSE UNCHANGED <<isClassteacher, class_teacher_id>>
        /\ UNCHANGED <<now, minute, tokens, school_users, attendances, class_subjects, student_subjects, inflight>>

(***************************************************************************)
(* Daily attendance: attendance_service.py                                 *)
(***************************************************************************)

\* datetime.utcnow().date(): the day number of the clock's hour.
UtcToday(hour) == hour \div 24

\* timedelta(days=1.5), in hours.
EditWindowHours == 36

\* date - timedelta: Python subtracts the timedelta's whole days only.
DateMinusTimedelta(d, hours) == d - (hours \div 24)

\* The recency gate dropped: no date is too old.
TooOld_Never(d, hour) == FALSE

\* attendance_data.date < (datetime.utcnow().date() - timedelta(days=1.5))
TooOld(d, hour) == d < DateMinusTimedelta(UtcToday(hour), EditWindowHours)

\* _get_class_students without its is_active filter.
GetClassStudents_Inactive(users, c) == {s \in DOMAIN users : users[s].class_id = c /\ users[s].role = STUDENT}

\* _get_class_students: the active students of the class.
GetClassStudents(users, c) == {s \in DOMAIN users : users[s].class_id = c /\ users[s].role = STUDENT /\ users[s].is_active}

\* The ownership check dropped: every teacher of the tenant passes.
IsAssignedTeacher_Any(c, teacher) == TRUE

\* school_class.class_teacher_id != teacher_id, negated.
IsAssignedTeacher(c, teacher) == class_teacher_id[c] = teacher

\* The checks of record_daily_attendance, in the handler's order.
RecordOutcome(cu, c, d) == IF cu.role # TEACHER THEN "403" ELSE IF c \notin ClassIds \/ school_classes[c] # cu.school_id THEN "404" ELSE IF TooOld(d, now) THEN "400" ELSE IF ~IsAssignedTeacher(c, cu.user_id) THEN "403" ELSE IF GetClassStudents(school_users, c) = {} THEN "404" ELSE "200"

\* The records a request body can carry: student id, status, arrival time, notes.
RecordPool == {[student_id |-> "s1", status |-> ABSENT, arrival_time |-> "09:30", notes |-> "sick"], [student_id |-> "s1", status |-> PRESENT, arrival_time |-> NULL, notes |-> NULL], [student_id |-> "s2", status |-> LEAVE, arrival_time |-> NULL, notes |-> "trip"], [student_id |-> "s3", status |-> HALF_DAY, arrival_time |-> NULL, notes |-> NULL]}

\* attendance_data.records: every list of at most MaxRecords records.
RecordLists == UNION {[1..n -> RecordPool] : n \in 0..MaxRecords}

\* attendance_input_map: a dict comprehension keeps the last record of a student id.
AttendanceInputMap(records) == [s \in {records[i].student_id : i \in DOMAIN records} |-> records[CHOOSE i \in DOMAIN records : records[i].student_id = s /\ \A j \in DOMAIN records : records[j].student_id = s => j <= i]]

\* The lookup of existing rows filtered by the wrong tenant: it finds nothing.
ExistingAttendance_None(rows, school, c, d) == {}

\* The existing rows of the caller's tenant, the class and the date.
ExistingAttendance(rows, school, c, d) == {r \in rows : r.school_id = school /\ r.class_id = c /\ r.date = d}

\* The default of a student missing from the input taken to be absent.
EffectiveValues_DefaultAbsent(input, s, teacher) == IF s \in DOMAIN input THEN [status |-> input[s].status, arrival_time |-> input[s].arrival_time, notes |-> input[s].notes, recorded_by |-> teacher] ELSE [status |-> ABSENT, arrival_time |-> NULL, notes |-> NULL, recorded_by |-> teacher]

\* The values the loop gives a student: the submitted record's, else present.
EffectiveValues(input, s, teacher) == IF s \in DOMAIN input THEN [status |-> input[s].status, arrival_time |-> input[s].arrival_time, notes |-> input[s].notes, recorded_by |-> teacher] ELSE [status |-> PRESENT, arrival_time |-> NULL, notes |-> NULL, recorded_by |-> teacher]

\* The loop merging instead of overwriting: a student missing from the input
\* keeps the values of the existing row.
Pending_Merge(rows, users, cu, c, d, records) ==
    LET input == AttendanceInputMap(records)
        existing == ExistingAttendance(rows, cu.school_id, c, d)
        mine(s) == {r \in existing : r.student_id = s}
        kept(s) == LET r == CHOOSE r \in mine(s) : TRUE IN [status |-> r.status, arrival_time |-> r.arrival_time, notes |-> r.notes, recorded_by |-> cu.user_id]
    IN  {[student_id |-> s, existing |-> mine(s), new |-> IF s \notin DOMAIN input /\ mine(s) # {} THEN kept(s) ELSE EffectiveValues(input, s, cu.user_id)] : s \in GetClassStudents(users, c)}

\* The loop running over the submitted ids as well as over the roster.
Pending_Submitted(rows, users, cu, c, d, records) ==
    LET input == AttendanceInputMap(records)
        existing == ExistingAttendance(rows, cu.school_id, c, d)
    IN  {[student_id |-> s, existing |-> {r \in existing : r.student_id = s}, new |-> EffectiveValues(input, s, cu.user_id)] : s \in GetClassStudents(users, c) \cup DOMAIN input}

\* The loop over the roster: per student, the row the session loaded for it
\* (none: a new row is added) and the values assigned.
Pending(rows, users, cu, c, d, records) ==
    LET input == AttendanceInputMap(records)
        existing == ExistingAttendance(rows, cu.school_id, c, d)
    IN  {[student_id |-> s, existing |-> {r \in existing : r.student_id = s}, new |-> EffectiveValues(input, s, cu.user_id)] : s \in GetClassStudents(users, c)}

\* The id of a new row (uuid4): the class, date and student with a serial.
NewId(rows, c, d, s) == <<c, d, s, 1 + Cardinality({r \in rows : r.class_id = c /\ r.date = d /\ r.student_id = s})>>

\* The UPDATE of a loaded row e, now r in the table: the columns whose assigned
\* value differs from the loaded one are written.
UpdateRow(r, e, new) == [r EXCEPT !.status = IF new.status # e.status THEN new.status ELSE @, !.arrival_time = IF new.arrival_time # e.arrival_time THEN new.arrival_time ELSE @, !.notes = IF new.notes # e.notes THEN new.notes ELSE @, !.recorded_by = IF new.recorded_by # e.recorded_by THEN new.recorded_by ELSE @]

\* The flush of the session: an UPDATE of each loaded row, an INSERT of each
\* new row.
Flush(rows, pending, school, c, d) ==
    LET loadedIds == {e.id : e \in UNION {p.existing : p \in pending}}
        updated(r) == IF r.id \notin loadedIds THEN r ELSE LET p == CHOOSE q \in pending : \E e \in q.existing : e.id = r.id IN UpdateRow(r, CHOOSE e \in p.existing : e.id = r.id, p.new)
        inserted == {[id |-> NewId(rows, c, d, p.student_id), school_id |-> school, class_id |-> c, date |-> d, student_id |-> p.student_id, status |-> p.new.status, arrival_time |-> p.new.arrival_time, notes |-> p.new.notes, recorded_by |-> p.new.recorded_by] : p \in {q \in pending : q.existing = {}}}
    IN  {updated(r) : r \in rows} \cup inserted

\* The unique constraint not declared.
UniqueAttendance_None(rows) == TRUE

\* UniqueConstraint('class_id', 'date', 'student_id'): uq_attendance_per_student_per_day
UniqueAttendance(rows) == Cardinality({<<r.class_id, r.date, r.student_id>> : r \in rows}) = Cardinality(rows)

\* POST /attendance/daily, as one transaction.
record_daily_attendance(u, c, d, lists) ==
    LET cu == CurrentUser(u)
        out == RecordOutcome(cu, c, d)
    IN  /\ before' = Snapshot
        /\ IF out # "200"
           THEN /\ last' = Log("record", u, out, c, d, <<>>, NULL, NULL, NULL)
                /\ UNCHANGED attendances
           ELSE \E records \in lists :
                    LET flushed == Flush(attendances, Pending(attendances, school_users, cu, c, d, records), cu.school_id, c, d)
                    IN  IF UniqueAttendance(flushed)
                        THEN /\ attendances' = flushed
                             /\ last' = Log("record", u, "200", c, d, records, NULL, NULL, NULL)
                        ELSE /\ UNCHANGED attendances
                             /\ last' = Log("record", u, "500", c, d, records, NULL, NULL, NULL)
        /\ UNCHANGED <<now, minute, tokens, school_users, class_teacher_id, isClassteacher, class_subjects, student_subjects, inflight>>

\* The clock: six hours pass.
Tick ==
    /\ now + 6 <= MaxNow
    /\ now' = now + 6
    /\ UNCHANGED <<minute, tokens, school_users, class_teacher_id, isClassteacher, attendances, class_subjects, student_subjects, inflight, last, before>>

(***************************************************************************)
(* Requests in flight: a handler reads in its own session (get_db) and     *)
(* writes when it commits; other requests run in between.                  *)
(***************************************************************************)

\* Requests that can be in flight together.
MaxSessions == 2

SessionIds == 1..MaxSessions

\* An AsyncSession between its reads and its commit: the request, the rows it
\* loaded and the changes it holds.
Session(sid, op, cu, c, d, records, pending, T, old) == [sid |-> sid, op |-> op, caller |-> cu.user_id, school_id |-> cu.school_id, class_id |-> c, date |-> d, records |-> records, pending |-> pending, teacher_id |-> T, old |-> old]

\* record_daily_attendance up to the end of its loop: the checks, the roster,
\* the existing rows and the assignments, all before the commit.
record_daily_attendance_read(sid, u, c, d, records) ==
    LET cu == CurrentUser(u)
        out == RecordOutcome(cu, c, d)
    IN  /\ sid \notin {s.sid : s \in inflight}
        /\ IF out # "200"
           THEN /\ last' = Log("record", u, out, c, d, <<>>, NULL, NULL, NULL)
                /\ before' = Snapshot
                /\ UNCHANGED inflight
           ELSE /\ inflight' = inflight \cup {Session(sid, "record", cu, c, d, records, Pending(attendances, school_users, cu, c, d, records), NULL, NULL)}
                /\ UNCHANGED <<last, before>>
        /\ UNCHANGED <<now, minute, tokens, school_users, class_teacher_id, isClassteacher, attendances, class_subjects, student_subjects>>

\* A commit without a transaction around the batch: when an INSERT is
\* rejected, the UPDATEs and the other INSERTs stay written.
record_daily_attendance_commit_RowByRow(s) ==
    LET flushed == Flush(attendances, s.pending, s.school_id, s.class_id, s.date)
        accepted == {p \in s.pending : p.existing # {} \/ \A r \in attendances : ~(r.class_id = s.class_id /\ r.date = s.date /\ r.student_id = p.student_id)}
    IN  /\ s \in inflight
        /\ s.op = "record"
        /\ before' = Snapshot
        /\ inflight' = inflight \ {s}
        /\ IF UniqueAttendance(flushed)
           THEN /\ attendances' = flushed
                /\ last' = Log("record", s.caller, "200", s.class_id, s.date, s.records, NULL, NULL, NULL)
           ELSE /\ attendances' = Flush(attendances, accepted, s.school_id, s.class_id, s.date)
                /\ last' = Log("record", s.caller, "500", s.class_id, s.date, s.records, NULL, NULL, NULL)
        /\ UNCHANGED <<now, minute, tokens, school_users, class_teacher_id, isClassteacher, class_subjects, student_subjects>>

\* await db.commit() of record_daily_attendance: the flush and the commit; an
\* IntegrityError is not caught, the session is closed and nothing is written.
record_daily_attendance_commit(s) ==
    LET flushed == Flush(attendances, s.pending, s.school_id, s.class_id, s.date)
    IN  /\ s \in inflight
        /\ s.op = "record"
        /\ before' = Snapshot
        /\ inflight' = inflight \ {s}
        /\ IF UniqueAttendance(flushed)
           THEN /\ attendances' = flushed
                /\ last' = Log("record", s.caller, "200", s.class_id, s.date, s.records, NULL, NULL, NULL)
           ELSE /\ UNCHANGED attendances
                /\ last' = Log("record", s.caller, "500", s.class_id, s.date, s.records, NULL, NULL, NULL)
        /\ UNCHANGED <<now, minute, tokens, school_users, class_teacher_id, isClassteacher, class_subjects, student_subjects>>

\* assign_class_teacher up to its commit: the checks and the conflict query;
\* the session keeps the class row it loaded.
assign_class_teacher_read(sid, u, T, c) ==
    LET cu == CurrentUser(u)
        out == AssignOutcome(cu, T, c)
    IN  /\ sid \notin {s.sid : s \in inflight}
        /\ IF out # "200"
           THEN /\ last' = Log("assign", u, out, c, -1, <<>>, T, NULL, NULL)
                /\ before' = Snapshot
                /\ UNCHANGED inflight
           ELSE /\ inflight' = inflight \cup {Session(sid, "assign", cu, c, -1, <<>>, {}, T, class_teacher_id[c])}
                /\ UNCHANGED <<last, before>>
        /\ UNCHANGED <<now, minute, tokens, school_users, class_teacher_id, isClassteacher, attendances, class_subjects, student_subjects>>

\* await db.commit() of assign_class_teacher: the two UPDATE school_users
\* statements and the UPDATE of the class row, written when the assigned
\* value differs from the loaded one. No constraint is checked.
assign_class_teacher_commit(s) ==
    /\ s \in inflight
    /\ s.op = "assign"
    /\ before' = Snapshot
    /\ inflight' = inflight \ {s}
    /\ isClassteacher' = AssignFlags(isClassteacher, s.old, s.teacher_id)
    /\ class_teacher_id' = IF s.old # s.teacher_id THEN [class_teacher_id EXCEPT ![s.class_id] = s.teacher_id] ELSE class_teacher_id
    /\ last' = Log("assign", s.caller, "200", s.class_id, -1, <<>>, s.teacher_id, NULL, NULL)
    /\ UNCHANGED <<now, minute, tokens, school_users, attendances, class_subjects, student_subjects>>

(***************************************************************************)
(* Subject mappings and optional-subject enrolment: subject_service.py     *)
(***************************************************************************)

\* school_subjects rows: id -> school_id (the name is not modelled).
school_subjects == [subj1 |-> "S1", subj2 |-> "S2", subj3 |-> "S1"]

SubjectIds == DOMAIN school_subjects

\* The roles add_subject_to_class and bulk_add_subjects_to_class accept.
MapSubjectRoles == {SCHOOL_ADMIN, SCHOOL_SUPERADMIN, TEACHER}

\* UniqueConstraint("class_id", "subject_id"): uq_class_subject
UniqueClassSubject(rows) == \A r1, r2 \in rows : (r1.class_id = r2.class_id /\ r1.subject_id = r2.subject_id) => r1 = r2

\* The id of a new class_subjects row (uuid4): the class and subject with a serial.
MappingId(rows, c, sub) == <<c, sub, 1 + Cardinality({r \in rows : r.class_id = c /\ r.subject_id = sub})>>

\* existing_mapping: the rows of the class and subject.
ExistingMapping(rows, c, sub) == {r \in rows : r.class_id = c /\ r.subject_id = sub}

\* The duplicate check of add_subject_to_class dropped.
AddSubjectOutcome_NoDuplicateCheck(cu, c, sub) == IF cu.role \notin MapSubjectRoles THEN "403" ELSE IF sub \notin SubjectIds \/ school_subjects[sub] # cu.school_id THEN "404" ELSE IF c \notin ClassIds \/ school_classes[c] # cu.school_id THEN "404" ELSE "200"

\* The checks of add_subject_to_class, in the handler's order.
AddSubjectOutcome(cu, c, sub) == IF cu.role \notin MapSubjectRoles THEN "403" ELSE IF sub \notin SubjectIds \/ school_subjects[sub] # cu.school_id THEN "404" ELSE IF c \notin ClassIds \/ school_classes[c] # cu.school_id THEN "404" ELSE IF ExistingMapping(class_subjects, c, sub) # {} THEN "409" ELSE "200"

\* POST /subjects/map-to-class, as one transaction; the teacher id of the
\* payload is stored as it comes.
add_subject_to_class(u, c, sub, teacher, optional) ==
    LET cu == CurrentUser(u)
        out == AddSubjectOutcome(cu, c, sub)
        row == [id |-> MappingId(class_subjects, c, sub), class_id |-> c, subject_id |-> sub, teacher_id |-> teacher, is_optional |-> optional]
        body == [subject_id |-> sub, is_optional |-> optional]
    IN  /\ before' = Snapshot
        /\ IF out = "200" /\ UniqueClassSubject(class_subjects \cup {row})
           THEN /\ class_subjects' = class_subjects \cup {row}
                /\ last' = Log("map_subject", u, "200", c, -1, <<>>, teacher, body, row)
           ELSE /\ UNCHANGED class_subjects
                /\ last' = Log("map_subject", u, IF out = "200" THEN "400" ELSE out, c, -1, <<>>, teacher, body, NULL)
        /\ UNCHANGED <<now, minute, tokens, school_users, class_teacher_id, isClassteacher, attendances, student_subjects, inflight>>

\* Longest subjects list a bulk request carries.
MaxItems == 2

\* The items a bulk request can carry: subject id (subj9 is no subject) and
\* optional flag.
ItemPool == {[subject_id |-> "subj1", is_optional |-> TRUE], [subject_id |-> "subj3", is_optional |-> FALSE], [subject_id |-> "subj2", is_optional |-> TRUE], [subject_id |-> "subj9", is_optional |-> FALSE]}

\* subjects: every list of at most MaxItems items.
ItemLists == UNION {[1..n -> ItemPool] : n \in 0..MaxItems}

\* The checks of bulk_add_subjects_to_class that fail the request.
BulkAddOutcome(cu, c) == IF cu.role \notin MapSubjectRoles THEN "403" ELSE IF c \notin ClassIds \/ school_classes[c] # cu.school_id THEN "404" ELSE "200"

\* An item the loop skips although its subject is of another tenant: never.
SkipsItem_AnyTenant(rows, c, item) == item.subject_id \notin SubjectIds \/ ExistingMapping(rows, c, item.subject_id) # {}

\* The three continue statements of the loop: the subject does not exist, is
\* of another school than the class, or is mapped to the class already.
SkipsItem(rows, c, item) == item.subject_id \notin SubjectIds \/ school_subjects[item.subject_id] # school_classes[c] \/ ExistingMapping(rows, c, item.subject_id) # {}

RECURSIVE BulkAddLoop(_, _, _)
\* The loop over subjects: rows are the rows the session sees (the query of an
\* iteration flushes the mappings added before it); the result is the rows
\* after the last iteration.
BulkAddLoop(rows, c, subjects) == IF subjects = <<>> THEN rows ELSE BulkAddLoop(IF SkipsItem(rows, c, Head(subjects)) THEN rows ELSE rows \cup {[id |-> MappingId(rows, c, Head(subjects).subject_id), class_id |-> c, subject_id |-> Head(subjects).subject_id, teacher_id |-> NULL, is_optional |-> Head(subjects).is_optional]}, c, Tail(subjects))

\* POST /subjects/bulk-map-to-class/{class_id}, as one transaction.
bulk_add_subjects_to_class(u, c, subjects) ==
    LET cu == CurrentUser(u)
        out == BulkAddOutcome(cu, c)
        rows == IF out = "200" THEN BulkAddLoop(class_subjects, c, subjects) ELSE class_subjects
    IN  /\ before' = Snapshot
        /\ IF out = "200" /\ UniqueClassSubject(rows)
           THEN /\ class_subjects' = rows
                /\ last' = Log("bulk_map", u, "200", c, -1, <<>>, NULL, subjects, rows \ class_subjects)
           ELSE /\ UNCHANGED class_subjects
                /\ last' = Log("bulk_map", u, IF out = "200" THEN "400" ELSE out, c, -1, <<>>, NULL, subjects, NULL)
        /\ UNCHANGED <<now, minute, tokens, school_users, class_teacher_id, isClassteacher, attendances, student_subjects, inflight>>

\* The roles remove_subject_from_class and assign_teacher_to_subject accept.
AdminRoles == {SCHOOL_ADMIN, SCHOOL_SUPERADMIN}

\* The checks of remove_subject_from_class: for a mapping that exists the
\* tenant check reads mapping.school_class, a relationship the AsyncSession
\* has not loaded, and mapping.school_subject, an attribute ClassSubject does
\* not have; either raises before db.delete is reached.
RemoveMappingOutcome(cu, mapping_id) == IF cu.role \notin AdminRoles THEN "403" ELSE IF \A r \in class_subjects : r.id # mapping_id THEN "404" ELSE "500"

\* remove_subject_from_class with the tenant check passing and the delete
\* leaving the enrolments of the mapping in place.
remove_subject_from_class_LeavesEnrolments(u, mapping_id) ==
    /\ before' = Snapshot
    /\ class_subjects' = IF CurrentUser(u).role \in AdminRoles THEN {r \in class_subjects : r.id # mapping_id} ELSE class_subjects
    /\ last' = Log("remove_mapping", u, IF RemoveMappingOutcome(CurrentUser(u), mapping_id) = "500" THEN "200" ELSE RemoveMappingOutcome(CurrentUser(u), mapping_id), NULL, -1, <<>>, NULL, [mapping_id |-> mapping_id], NULL)
    /\ UNCHANGED <<now, minute, tokens, school_users, class_teacher_id, isClassteacher, attendances, student_subjects, inflight>>

\* DELETE /subjects/remove-from-class/{mapping_id}, as one transaction.
remove_subject_from_class(u, mapping_id) ==
    /\ before' = Snapshot
    /\ last' = Log("remove_mapping", u, RemoveMappingOutcome(CurrentUser(u), mapping_id), NULL, -1, <<>>, NULL, [mapping_id |-> mapping_id], NULL)
    /\ UNCHANGED <<now, minute, tokens, school_users, class_teacher_id, isClassteacher, attendances, class_subjects, student_subjects, inflight>>

\* The roles assign_optional_subject and remove_optional_subject accept.
EnrolRoles == {TEACHER, SCHOOL_ADMIN, SCHOOL_SUPERADMIN}

\* The class-subject query of the enrolment handlers: the mapping with that
\* id, flagged optional, of a class of the caller's tenant.
OptionalClassSubject(cu, cs) == {r \in class_subjects : r.id = cs /\ r.is_optional /\ school_classes[r.class_id] = cu.school_id}

\* UniqueConstraint("student_id", "class_subject_id"): uq_student_optional_subject
UniqueStudentSubject(rows) == \A r1, r2 \in rows : (r1.student_id = r2.student_id /\ r1.class_subject_id = r2.class_subject_id) => r1 = r2

\* The id of a new student_subjects row (uuid4): the pair with a serial.
EnrolmentId(rows, x, cs) == <<x, cs, 1 + Cardinality({r \in rows : r.student_id = x /\ r.class_subject_id = cs})>>

\* The duplicate check of assign_optional_subject dropped.
EnrolOutcome_NoDuplicateCheck(cu, student, cs) == IF cu.role \notin EnrolRoles THEN "403" ELSE IF student \notin DOMAIN school_users \/ school_users[student].school_id # cu.school_id THEN "404" ELSE IF OptionalClassSubject(cu, cs) = {} THEN "404" ELSE "200"

\* The checks of assign_optional_subject, in the handler's order.
EnrolOutcome(cu, student, cs) == IF cu.role \notin EnrolRoles THEN "403" ELSE IF student \notin DOMAIN school_users \/ school_users[student].school_id # cu.school_id THEN "404" ELSE IF OptionalClassSubject(cu, cs) = {} THEN "404" ELSE IF \E r \in student_subjects : r.student_id = student /\ r.class_subject_id = cs THEN "409" ELSE "200"

\* POST /subjects/assign-optional, as one transaction.
assign_optional_subject(u, student, cs) ==
    LET cu == CurrentUser(u)
        out == EnrolOutcome(cu, student, cs)
        row == [id |-> EnrolmentId(student_subjects, student, cs), student_id |-> student, class_subject_id |-> cs]
        body == [student_id |-> student, class_subject_id |-> cs]
    IN  /\ before' = Snapshot
        /\ IF out = "200" /\ UniqueStudentSubject(student_subjects \cup {row})
           THEN /\ student_subjects' = student_subjects \cup {row}
                /\ last' = Log("enrol", u, "200", NULL, -1, <<>>, NULL, body, row)
           ELSE /\ UNCHANGED student_subjects
                /\ last' = Log("enrol", u, IF out = "200" THEN "400" ELSE out, NULL, -1, <<>>, NULL, body, NULL)
        /\ UNCHANGED <<now, minute, tokens, school_users, class_teacher_id, isClassteacher, attendances, class_subjects, inflight>>

\* The enrolment query of remove_optional_subject without its tenant filters.
RemovableEnrolment_AnyTenant(cu, assignment_id) == {r \in student_subjects : r.id = assignment_id}

\* The query of remove_optional_subject: the enrolment with that id whose
\* student is of the caller's tenant and whose mapping exists for a class of
\* the caller's tenant.
RemovableEnrolment(cu, assignment_id) == {r \in student_subjects : r.id = assignment_id /\ r.student_id \in DOMAIN school_users /\ school_users[r.student_id].school_id = cu.school_id /\ \E m \in class_subjects : m.id = r.class_subject_id /\ school_classes[m.class_id] = cu.school_id}

\* The checks of remove_optional_subject, in the handler's order.
RemoveEnrolmentOutcome(cu, assignment_id) == IF cu.role \notin EnrolRoles THEN "403" ELSE IF RemovableEnrolment(cu, assignment_id) = {} THEN "404" ELSE "200"

\* DELETE /subjects/remove-optional/{assignment_id}, as one transaction.
remove_optional_subject(u, assignment_id) ==
    LET cu == CurrentUser(u)
        out == RemoveEnrolmentOutcome(cu, assignment_id)
    IN  /\ before' = Snapshot
        /\ last' = Log("remove_enrolment", u, out, NULL, -1, <<>>, NULL, [assignment_id |-> assignment_id], NULL)
        /\ IF out = "200"
           THEN student_subjects' = student_subjects \ RemovableEnrolment(cu, assignment_id)
           ELSE UNCHANGED student_subjects
        /\ UNCHANGED <<now, minute, tokens, school_users, class_teacher_id, isClassteacher, attendances, class_subjects, inflight>>

\* The valid-students query of bulk_assign_optional_subject: the submitted
\* ids of users of the caller's tenant whose class is the mapping's class.
\* The query selects SchoolUser.id, so its scalars are the ids themselves.
ValidStudentIds(cu, cs, student_ids) == {x \in {student_ids[i] : i \in DOMAIN student_ids} : x \in DOMAIN school_users /\ school_users[x].school_id = cu.school_id /\ \E r \in OptionalClassSubject(cu, cs) : school_users[x].class_id = r.class_id}

\* existing_student_ids: the valid ids already enrolled in the mapping.
ExistingStudentIds(cs, valid) == {x \in valid : \E r \in student_subjects : r.class_subject_id = cs /\ r.student_id = x}

\* The checks of bulk_assign_optional_subject: the class-subject query (the
\* handler does not look at the caller's role), then the comprehension
\* {s.id for s in valid_students.scalars().all()}, which reads the attribute
\* id of each returned UUID and so raises as soon as the query returned one.
BulkEnrolOutcome(cu, cs, student_ids) == IF OptionalClassSubject(cu, cs) = {} THEN "404" ELSE IF ValidStudentIds(cu, cs, student_ids) # {} THEN "500" ELSE "200"

\* The failed list of the response: in the order of student_ids, the ids that
\* are not valid and the ids already enrolled.
FailedList(student_ids, valid, existing) == [i \in {j \in DOMAIN student_ids : student_ids[j] \notin valid \/ student_ids[j] \in existing} |-> [student_id |-> student_ids[i], reason |-> IF student_ids[i] \notin valid THEN "Invalid student" ELSE "Already assigned"]]

\* POST /subjects/bulk-assign-optional-to-students, as one transaction.
bulk_assign_optional_subject(u, cs, student_ids) ==
    LET cu == CurrentUser(u)
        out == BulkEnrolOutcome(cu, cs, student_ids)
        valid == ValidStudentIds(cu, cs, student_ids)
        existing == ExistingStudentIds(cs, valid)
        new == valid \ existing
        rows == student_subjects \cup {[id |-> EnrolmentId(student_subjects, x, cs), student_id |-> x, class_subject_id |-> cs] : x \in new}
        body == [class_subject_id |-> cs, student_ids |-> student_ids]
    IN  /\ before' = Snapshot
        /\ IF out = "200" /\ UniqueStudentSubject(rows)
           THEN /\ student_subjects' = rows
                /\ last' = Log("bulk_enrol", u, "200", NULL, -1, <<>>, NULL, body, [success |-> new, failed |-> FailedList(student_ids, valid, existing)])
           ELSE /\ UNCHANGED student_subjects
                /\ last' = Log("bulk_enrol", u, IF out = "200" THEN "400" ELSE out, NULL, -1, <<>>, NULL, body, NULL)
        /\ UNCHANGED <<now, minute, tokens, school_users, class_teacher_id, isClassteacher, attendances, class_subjects, inflight>>

\* The teacher query of assign_teacher_to_subject: the user with that id, of
\* the caller's tenant, with the role teacher.
SubjectTeacher(cu, T) == {x \in DOMAIN school_users : x = T /\ school_users[x].school_id = cu.school_id /\ school_users[x].role = TEACHER}

\* The checks of assign_teacher_to_subject, in the handler's order.
AssignSubjectTeacherOutcome(cu, T, cs) == IF cu.role \notin AdminRoles THEN "403" ELSE IF SubjectTeacher(cu, T) = {} THEN "404" ELSE IF \A r \in class_subjects : r.id # cs \/ school_classes[r.class_id] # cu.school_id THEN "404" ELSE "200"

\* POST /subjects/assign-teacher-to-subject, as one transaction.
assign_teacher_to_subject(u, T, cs) ==
    LET cu == CurrentUser(u)
        out == AssignSubjectTeacherOutcome(cu, T, cs)
    IN  /\ before' = Snapshot
        /\ last' = Log("assign_subject_teacher", u, out, NULL, -1, <<>>, T, [class_subject_id |-> cs], NULL)
        /\ IF out = "200"
           THEN class_subjects' = {IF r.id = cs THEN [r EXCEPT !.teacher_id = T] ELSE r : r \in class_subjects}
           ELSE UNCHANGED class_subjects
        /\ UNCHANGED <<now, minute, tokens, school_users, class_teacher_id, isClassteacher, attendances, student_subjects, inflight>>

(***************************************************************************)
(* Student registration: school_service.py                                 *)
(***************************************************************************)

\* The roles register_student accepts.
RegisterRoles == {SCHOOL_ADMIN, SCHOOL_SUPERADMIN}

\* The request bodies of register_student in the model.
StudentPayloads == [email : {"s3@x", "s1@x"}, role : {STUDENT, TEACHER}, school_id : {"S1", "S2"}, class_id : {"cA"}]

\* The checks of register_student, in the handler's order; the last is the
\* foreign key of school_users.class_id.
RegisterStudentOutcome(cu, payload) == IF cu.role \notin RegisterRoles THEN "403" ELSE IF payload.role # STUDENT THEN "400" ELSE IF cu.school_id # payload.school_id THEN "403" ELSE IF \E x \in DOMAIN school_users : school_users[x].email = payload.email THEN "400" ELSE IF payload.class_id # NULL /\ payload.class_id \notin ClassIds THEN "400" ELSE "200"

\* POST /school/register-student, as one transaction.
register_student(u, payload) ==
    LET cu == CurrentUser(u)
        out == RegisterStudentOutcome(cu, payload)
    IN  /\ before' = Snapshot
        /\ last' = Log("register_student", u, out, payload.class_id, -1, <<>>, NULL, [payload |-> payload], NULL)
        /\ IF out = "200"
           THEN \E id \in NewUserIds(school_users) :
                    school_users' = (id :> [role |-> STUDENT, school_id |-> payload.school_id, class_id |-> payload.class_id, is_active |-> TRUE, email |-> payload.email]) @@ school_users
           ELSE UNCHANGED school_users
        /\ UNCHANGED <<now, minute, tokens, class_teacher_id, isClassteacher, attendances, class_subjects, student_subjects, inflight>>

(***************************************************************************)
(* Tokens: shared/auth.py, and the logins that issue them                  *)
(***************************************************************************)

\* SECRET_KEY: the key the tokens are signed with.
SECRET_KEY == "secret"

ACCESS_TOKEN_EXPIRE_MINUTES == 60

\* datetime.utcnow(), in minutes.
UtcNowMinutes == now * 60 + minute

\* What a request carries as its bearer token: kind is "jwt" for a signed
\* token (key: the key of its signature), "malformed" for a string that is
\* no JWT, "missing" for a request without an Authorization header. A claim
\* the token does not have is NULL.
Token(kind, key, sub, role, user_id, school_id, exp) == [kind |-> kind, key |-> key, sub |-> sub, role |-> role, user_id |-> user_id, school_id |-> school_id, exp |-> exp]

\* create_access_token: the claims with exp an hour from now instead of
\* ACCESS_TOKEN_EXPIRE_MINUTES.
create_access_token_AnHourMore(sub, role, user_id, school_id) == Token("jwt", SECRET_KEY, sub, role, user_id, school_id, UtcNowMinutes + ACCESS_TOKEN_EXPIRE_MINUTES + 60)

\* create_access_token: the claims and exp, signed with SECRET_KEY.
create_access_token(sub, role, user_id, school_id) == Token("jwt", SECRET_KEY, sub, role, user_id, school_id, UtcNowMinutes + ACCESS_TOKEN_EXPIRE_MINUTES)

\* decode_token returns a payload: jwt.decode verifies the signature and
\* raises when exp is before the clock.
decode_token(token) == token.kind = "jwt" /\ token.key = SECRET_KEY /\ ~(token.exp < UtcNowMinutes)

\* get_current_user (with oauth2_scheme, which answers 401 to a request
\* without a token): the status it raises, or 200.
get_current_user(token) == IF ~decode_token(token) THEN "401" ELSE IF token.user_id = NULL \/ token.sub = NULL \/ token.role = NULL THEN "400" ELSE "200"

\* The current_user dict get_current_user returns.
TokenUser(token) == [user_id |-> token.user_id, role |-> token.role, school_id |-> token.school_id]

\* pwd_context.hash and the hashed_password column: the password of user u
\* of the model is <<"pw", u>>.
Hash(plain) == <<"bcrypt", plain>>

hashed_password(u) == Hash(<<"pw", u>>)

verify_password(plain, hashed) == Hash(plain) = hashed

\* The user query of school_user_login.
UserByEmail(email) == {u \in DOMAIN school_users : school_users[u].email = email}

\* The response of a login: the error detail or the token.
LoginResponse(detail, school, token) == [detail |-> detail, school_id |-> school, access_token |-> token]

\* school_user_login telling an unknown email from a wrong password.
school_user_login_UserNotFound(email, password) ==
    LET found == UserByEmail(email)
        user == CHOOSE u \in found : TRUE
        body == [email |-> email, password |-> password]
    IN  /\ before' = Snapshot
        /\ IF found = {}
           THEN /\ last' = Log("login", NULL, "404", NULL, -1, <<>>, NULL, body, LoginResponse("User not found", NULL, NULL))
                /\ UNCHANGED tokens
           ELSE IF ~verify_password(password, hashed_password(user))
           THEN /\ last' = Log("login", NULL, "401", NULL, -1, <<>>, NULL, body, LoginResponse("Invalid credentials", NULL, NULL))
                /\ UNCHANGED tokens
           ELSE LET token == create_access_token(school_users[user].email, school_users[user].role, user, school_users[user].school_id)
                IN  /\ last' = Log("login", user, "200", NULL, -1, <<>>, NULL, body, LoginResponse(NULL, school_users[user].school_id, token))
                    /\ tokens' = tokens \cup {[jwt |-> token, issued |-> UtcNowMinutes]}
        /\ UNCHANGED <<now, minute, school_users, class_teacher_id, isClassteacher, attendances, class_subjects, student_subjects, inflight>>

\* POST /school/login. tokens holds the tokens the clients were given, each
\* with the time of its login.
school_user_login(email, password) ==
    LET found == UserByEmail(email)
        user == CHOOSE u \in found : TRUE
        body == [email |-> email, password |-> password]
    IN  /\ before' = Snapshot
        /\ IF found = {} \/ ~verify_password(password, hashed_password(user))
           THEN /\ last' = Log("login", NULL, "401", NULL, -1, <<>>, NULL, body, LoginResponse("Invalid credentials", NULL, NULL))
                /\ UNCHANGED tokens
           ELSE LET token == create_access_token(school_users[user].email, school_users[user].role, user, school_users[user].school_id)
                IN  /\ last' = Log("login", user, "200", NULL, -1, <<>>, NULL, body, LoginResponse(NULL, school_users[user].school_id, token))
                    /\ tokens' = tokens \cup {[jwt |-> token, issued |-> UtcNowMinutes]}
        /\ UNCHANGED <<now, minute, school_users, class_teacher_id, isClassteacher, attendances, class_subjects, student_subjects, inflight>>

\* The super_admins row of the model: email and password.
SuperAdmin == [email |-> "root@x", hashed_password |-> Hash(<<"pw", "root">>), role |-> "superadmin"]

\* POST /superadmins/login: its token has sub and role, no user_id.
login_superadmin(email, password) ==
    LET body == [email |-> email, password |-> password]
    IN  /\ before' = Snapshot
        /\ IF email # SuperAdmin.email \/ ~verify_password(password, SuperAdmin.hashed_password)
           THEN /\ last' = Log("login_superadmin", NULL, "401", NULL, -1, <<>>, NULL, body, LoginResponse("Invalid credentials", NULL, NULL))
                /\ UNCHANGED tokens
           ELSE LET token == create_access_token(SuperAdmin.email, SuperAdmin.role, NULL, NULL)
                IN  /\ last' = Log("login_superadmin", NULL, "200", NULL, -1, <<>>, NULL, body, LoginResponse(NULL, NULL, token))
                    /\ tokens' = tokens \cup {[jwt |-> token, issued |-> UtcNowMinutes]}
        /\ UNCHANGED <<now, minute, school_users, class_teacher_id, isClassteacher, attendances, class_subjects, student_subjects, inflight>>

\* The clock: twenty minutes pass.
Minutes ==
    /\ minute' = (minute + 20) % 60
    /\ now' = now + (minute + 20) \div 60
    /\ UNCHANGED <<tokens, school_users, class_teacher_id, isClassteacher, attendances, class_subjects, student_subjects, inflight, last, before>>

(***************************************************************************)
(* Registration of admins and teachers: school_service.py                  *)
(***************************************************************************)

\* The checks of register_school_admin, in the handler's order.
RegisterAdminOutcome(cu, payload) == IF cu.role # SCHOOL_SUPERADMIN THEN "403" ELSE IF payload.role # SCHOOL_ADMIN THEN "400" ELSE IF cu.school_id # payload.school_id THEN "403" ELSE IF UserByEmail(payload.email) # {} THEN "400" ELSE "200"

\* register_teacher without the comparison of the payload's school with the
\* token's.
RegisterTeacherOutcome_AnySchool(cu, payload) == IF cu.role \notin RegisterRoles THEN "403" ELSE IF payload.role # TEACHER THEN "400" ELSE IF UserByEmail(payload.email) # {} THEN "400" ELSE "200"

\* The checks of register_teacher, in the handler's order.
RegisterTeacherOutcome(cu, payload) == IF cu.role \notin RegisterRoles THEN "403" ELSE IF payload.role # TEACHER THEN "400" ELSE IF cu.school_id # payload.school_id THEN "403" ELSE IF UserByEmail(payload.email) # {} THEN "400" ELSE "200"

\* A registration behind get_current_user: the request is answered by the
\* dependency (auth) or by the handler's checks (out); a new school_users row
\* gets the payload's role, school and email and no class.
RegisterUser(op, token, payload, auth, out) ==
    /\ before' = Snapshot
    /\ last' = Log(op, IF auth = "200" THEN token.user_id ELSE NULL, IF auth = "200" THEN out ELSE auth, NULL, -1, <<>>, NULL, [payload |-> payload, token |-> token, minutes |-> UtcNowMinutes], NULL)
    /\ IF auth = "200" /\ out = "200"
       THEN \E id \in NewUserIds(school_users) :
                school_users' = (id :> [role |-> payload.role, school_id |-> payload.school_id, class_id |-> NULL, is_active |-> TRUE, email |-> payload.email]) @@ school_users
       ELSE UNCHANGED school_users
    /\ UNCHANGED <<now, minute, tokens, class_teacher_id, isClassteacher, attendances, class_subjects, student_subjects, inflight>>

\* POST /school/register-admin, as one transaction.
register_school_admin(token, payload) == RegisterUser("register_admin", token, payload, get_current_user(token), RegisterAdminOutcome(TokenUser(token), payload))

\* POST /school/register-teacher, as one transaction.
register_teacher(token, payload) == RegisterUser("register_teacher", token, payload, get_current_user(token), RegisterTeacherOutcome(TokenUser(token), payload))

(***************************************************************************)
(* Read endpoints: school_service.py, subject_service.py                   *)
(***************************************************************************)

\* GET /school/{school_id}/classes: the classes of the school of the path;
\* the handler does not read current_user.
get_all_classes_with_sections(u, school_id) ==
    /\ before' = Snapshot
    /\ last' = Log("get_classes", u, "200", NULL, -1, <<>>, NULL, [school_id |-> school_id], {c \in ClassIds : school_classes[c] = school_id})
    /\ UNCHANGED <<now, minute, tokens, school_users, class_teacher_id, isClassteacher, attendances, class_subjects, student_subjects, inflight>>

\* The roles get_subjects_for_class accepts.
ViewSubjectRoles == {SCHOOL_ADMIN, SCHOOL_SUPERADMIN, TEACHER, STUDENT}

\* GET /subjects/by-class/{class_id}: the mappings of the class of the path.
get_subjects_for_class(u, c) ==
    LET cu == CurrentUser(u)
    IN  /\ before' = Snapshot
        /\ IF cu.role \notin ViewSubjectRoles
           THEN last' = Log("get_subjects", u, "403", c, -1, <<>>, NULL, NULL, {})
           ELSE last' = Log("get_subjects", u, "200", c, -1, <<>>, NULL, NULL, {r \in class_subjects : r.class_id = c})
        /\ UNCHANGED <<now, minute, tokens, school_users, class_teacher_id, isClassteacher, attendances, class_subjects, student_subjects, inflight>>

(***************************************************************************)
(* The initial state and the specifications                                *)
(***************************************************************************)

\* A populated store: the schools, classes and users exist, no class has a
\* class-teacher, nothing is mapped or enrolled, no attendance is recorded.
Init ==
    /\ now = 36
    /\ minute = 0
    /\ tokens = {}
    /\ school_users = InitialUsers
    /\ class_teacher_id = [c \in ClassIds |-> NULL]
    /\ isClassteacher = [u \in UserIds |-> "unset"]
    /\ attendances = {}
    /\ class_subjects = {}
    /\ student_subjects = {}
    /\ inflight = {}
    /\ last = NoRequest
    /\ before = [school_users |-> InitialUsers, class_teacher_id |-> [c \in ClassIds |-> NULL], isClassteacher |-> [u \in UserIds |-> "unset"], attendances |-> {}, class_subjects |-> {}, student_subjects |-> {}]

\* The class-teacher of cA and another teacher of its tenant submit for cA.
\* The requests for the day of the model's clock carry every list of records.
RecordDailyAttendance == \E u \in {"t1", "t2"}, c \in {"cA"}, d \in {1}, lists \in {RecordLists} : record_daily_attendance(u, c, d, lists)

\* The requests for the day before carry one of two lists.
RecordDayBefore == \E u \in {"t1"}, c \in {"cA"}, d \in {0}, lists \in {{<<>>, <<CHOOSE r \in RecordPool : r.student_id = "s2">>}} : record_daily_attendance(u, c, d, lists)

AssignTeacherOfA == \E u \in {"a1"}, T \in {"t1"}, c \in {"cA"} : assign_class_teacher(u, T, c)

UnassignTeacherOfA == \E u \in {"a1"}, c \in {"cA"} : unassign_class_teacher(u, c)

RegisterStudentOfA == \E u \in {"a1"}, payload \in {q \in StudentPayloads : q.role = STUDENT /\ q.school_id = "S1"} : register_student(u, payload)

\* The attendance register of one class and what changes its roster and its
\* class-teacher, at a fixed time; requests one at a time.
NextAtt == RecordDailyAttendance \/ RecordDayBefore \/ AssignTeacherOfA \/ UnassignTeacherOfA \/ RegisterStudentOfA

SpecAtt == Init /\ [][NextAtt]_vars

\* Any user submits for a class of either tenant, with one of two bodies.
RecordAtAnyTime == \E u \in {"t1", "t2", "a1", "s1"}, c \in {"cA", "cC"}, d \in Dates, lists \in {{<<>>, <<CHOOSE r \in RecordPool : r.student_id = "s2">>}} : record_daily_attendance(u, c, d, lists)

\* The gates of the attendance register: the clock advances, the class-teacher
\* of cA changes, any user submits; requests one at a time.
NextGate == Tick \/ RecordAtAnyTime \/ AssignTeacherOfA \/ UnassignTeacherOfA

SpecGate == Init /\ [][NextGate]_vars

(***************************************************************************)
(* Properties of the attendance register                                   *)
(***************************************************************************)

\* The active students of class c (the roster R of a request).
Roster(c) == {s \in DOMAIN school_users : school_users[s].role = STUDENT /\ school_users[s].class_id = c /\ school_users[s].is_active}

RowsFor(rows, c, d, s) == {r \in rows : r.class_id = c /\ r.date = d /\ r.student_id = s}

\* The records of a request body that name student s.
SubmittedFor(records, s) == {records[i] : i \in {j \in DOMAIN records : records[j].student_id = s}}

RecordedOk == last.op = "record" /\ last.status = "200"

\* C1: after a successful record_daily_attendance(class, date, M), every
\* student of the class's active roster has exactly one attendance row for
\* (class, date); its status is the status M submits for the student, and
\* present when M does not name the student.
C1_OneRowPerRosterStudent == RecordedOk => \A s \in Roster(last.class_id) : LET rows == RowsFor(attendances, last.class_id, last.date, s) IN Cardinality(rows) = 1 /\ \A r \in rows : IF SubmittedFor(last.records, s) = {} THEN r.status = PRESENT ELSE r.status \in {x.status : x \in SubmittedFor(last.records, s)}

\* C1 witness: a successful call that found rows for part of the roster only,
\* marked one roster student non-present and defaulted another.
C1_Witness == RecordedOk /\ (\E s \in Roster(last.class_id) : RowsFor(before.attendances, last.class_id, last.date, s) = {}) /\ (\E s \in Roster(last.class_id) : RowsFor(before.attendances, last.class_id, last.date, s) # {}) /\ (\E s \in Roster(last.class_id) : \E x \in SubmittedFor(last.records, s) : x.status # PRESENT) /\ (\E s \in Roster(last.class_id) : SubmittedFor(last.records, s) = {})

Values(r) == <<r.status, r.arrival_time, r.notes>>

\* C2: after a successful call the status, arrival time and note of every
\* roster student's row are those of the last call alone: the submitted
\* record's, and (present, null, null) for a student the last call omits,
\* whatever earlier calls wrote (overwrite, not merge).
C2_LastCallAlone == RecordedOk => \A s \in Roster(last.class_id) : \A r \in RowsFor(attendances, last.class_id, last.date, s) : IF SubmittedFor(last.records, s) = {} THEN Values(r) = <<PRESENT, NULL, NULL>> ELSE \E x \in SubmittedFor(last.records, s) : Values(r) = Values(x)

\* C2 witness: a student an earlier call marked non-present and the last call
\* omitted is present again, with no arrival time and no note.
C2_Witness == RecordedOk /\ \E r0 \in before.attendances : r0.class_id = last.class_id /\ r0.date = last.date /\ r0.status # PRESENT /\ r0.notes # NULL /\ SubmittedFor(last.records, r0.student_id) = {} /\ \E r \in attendances : r.id = r0.id /\ Values(r) = <<PRESENT, NULL, NULL>>

\* A row without its id and its recorder.
RowValues(rows) == {[class_id |-> r.class_id, date |-> r.date, student_id |-> r.student_id, status |-> r.status, arrival_time |-> r.arrival_time, notes |-> r.notes] : r \in rows}

\* C3: a successful call repeated at once with the same caller, class, date
\* and records succeeds again and leaves the same rows: no row is added, and
\* no student, status, arrival time or note changes.
C3_Idempotent == [][(RecordedOk /\ last'.op = "record" /\ last'.caller = last.caller /\ last'.class_id = last.class_id /\ last'.date = last.date /\ last'.records = last.records) => (last'.status = "200" /\ Cardinality(attendances') = Cardinality(attendances) /\ RowValues(attendances') = RowValues(attendances))]_vars

\* C3 witness: a successful call that found the rows it writes already there,
\* a non-present one among them, and left them as they were.
C3_Witness == RecordedOk /\ RowValues(before.attendances) = RowValues(attendances) /\ \E r \in attendances : r.class_id = last.class_id /\ r.date = last.date /\ r.status # PRESENT

\* C4: a target date whose midnight is older than now minus 36 hours is
\* rejected and no attendance row is created or modified; a target date that
\* is not older is not answered with the bad request of the recency gate.
C4_RejectsOlderThan36Hours == last.op = "record" => IF last.date * 24 < last.at - EditWindowHours THEN last.status # "200" /\ attendances = before.attendances ELSE last.status # "400"

\* The caller is a teacher of the class's tenant and its class-teacher.
CallerIsClassTeacher == school_users[last.caller].role = TEACHER /\ school_classes[last.class_id] = school_users[last.caller].school_id /\ class_teacher_id[last.class_id] = last.caller

\* C5: a record_daily_attendance call by anyone but the class's current
\* class-teacher (a teacher of the class's tenant) fails and changes no row;
\* the rows a request changes are rows of the class its class-teacher
\* submitted for, recorded by that teacher.
C5_OnlyClassTeacherWrites == (last.op = "record" /\ ~CallerIsClassTeacher => last.status # "200" /\ attendances = before.attendances) /\ (attendances # before.attendances => last.op = "record" /\ CallerIsClassTeacher /\ \A r \in attendances \ before.attendances : r.class_id = last.class_id /\ r.recorded_by = last.caller)

\* C5 witness: a teacher of the tenant who is not the class-teacher of the
\* class, which has one, is refused.
C5_Witness == last.op = "record" /\ last.status = "403" /\ school_users[last.caller].role = TEACHER /\ school_classes[last.class_id] = school_users[last.caller].school_id /\ class_teacher_id[last.class_id] \notin {NULL, last.caller} /\ attendances = before.attendances

(***************************************************************************)
(* Class-teacher assignment, one request at a time                         *)
(***************************************************************************)

AssignAny == \E u \in {"a1", "t1"}, T \in {"t1", "t2", "t3", "s1"}, c \in ClassIds : assign_class_teacher(u, T, c)

UnassignAny == \E u \in {"a1", "t1"}, c \in ClassIds : unassign_class_teacher(u, c)

NextTeach == AssignAny \/ UnassignAny

SpecTeach == Init /\ [][NextTeach]_vars

\* The classes whose class-teacher is T.
ClassesOf(T) == {c \in ClassIds : class_teacher_id[c] = T}

\* C6: after any sequence of assign_class_teacher and unassign_class_teacher
\* requests run one at a time, every teacher is the class-teacher of at most
\* one class.
C6_OneClassPerTeacher == \A T \in DOMAIN school_users : Cardinality(ClassesOf(T)) <= 1

\* C6 witness: a class without a class-teacher gets one by a successful
\* assignment while another class has a class-teacher of its own.
C6_Witness == last.op = "assign" /\ last.status = "200" /\ class_teacher_id[last.class_id] = last.teacher_id /\ before.class_teacher_id[last.class_id] = NULL /\ \E c \in ClassIds \ {last.class_id} : class_teacher_id[c] \notin {NULL, last.teacher_id}

\* C7: assign_class_teacher(T, B) issued while T is the class-teacher of
\* another class A fails; the class-teacher reference of every class (A and B
\* among them) and every profile flag (T's and that of B's class-teacher
\* among them) stay as they were.
C7_ConflictChangesNothing == (last.op = "assign" /\ \E A \in ClassIds \ {last.class_id} : before.class_teacher_id[A] = last.teacher_id) => (last.status # "200" /\ class_teacher_id = before.class_teacher_id /\ isClassteacher = before.isClassteacher)

\* C7 witness: an admin's assignment of T to B is refused while T teaches A
\* and B has a class-teacher of its own.
C7_Witness == last.op = "assign" /\ last.status = "400" /\ before.class_teacher_id[last.class_id] \notin {NULL, last.teacher_id} /\ \E A \in ClassIds \ {last.class_id} : class_teacher_id[A] = last.teacher_id

(***************************************************************************)
(* Attendance requests in flight together                                  *)
(***************************************************************************)

RaceLists == {<<>>, <<CHOOSE r \in RecordPool : r.student_id = "s1" /\ r.status = ABSENT>>}

\* The session a new request gets: the first one that is free.
FreeSessions == {k \in SessionIds : k \notin {s.sid : s \in inflight} /\ \A j \in SessionIds : j < k => j \in {s.sid : s \in inflight}}

RecordRead == \E sid \in FreeSessions, u \in {"t1"}, c \in {"cA"}, d \in {1}, records \in RaceLists : record_daily_attendance_read(sid, u, c, d, records)

RecordCommit == \E s \in inflight : record_daily_attendance_commit(s)

NextRecordRace == RecordRead \/ RecordCommit \/ AssignTeacherOfA

SpecRecordRace == Init /\ [][NextRecordRace]_vars

\* The commit of session s inserts a row for a student who got one, for the
\* same class and date, after s read.
InsertsDuplicate(s) == \E p \in s.pending : p.existing = {} /\ RowsFor(attendances, s.class_id, s.date, p.student_id) # {}

\* C8: in every reachable state there is at most one attendance row per
\* (class, date, student); and the commit of a request that read no row for
\* a student who has one by now (another request for the same class and date
\* committed in between) is rejected and writes nothing.
C8_UniqueBackstop == [](\A r1, r2 \in attendances : (r1.class_id = r2.class_id /\ r1.date = r2.date /\ r1.student_id = r2.student_id) => r1 = r2) /\ [][\A s \in inflight : (s.op = "record" /\ s \notin inflight' /\ InsertsDuplicate(s)) => (last'.status = "500" /\ attendances' = attendances)]_vars

\* C8 witness: two requests for a class and date without rows both read, one
\* committed, and the commit of the other was rejected.
C8_Witness == last.op = "record" /\ last.status = "500" /\ attendances = before.attendances /\ \A s \in Roster(last.class_id) : Cardinality(RowsFor(attendances, last.class_id, last.date, s)) = 1

(***************************************************************************)
(* Class-teacher assignments in flight together                            *)
(***************************************************************************)

AssignRead == \E sid \in FreeSessions, u \in {"a1"}, T \in {"t1", "t2"}, c \in {"cA", "cB"} : assign_class_teacher_read(sid, u, T, c)

AssignCommit == \E s \in inflight : assign_class_teacher_commit(s)

UnassignAB == \E c \in {"cA", "cB"} : unassign_class_teacher("a1", c)

NextAssignRace == AssignRead \/ AssignCommit \/ UnassignAB

SpecAssignRace == Init /\ [][NextAssignRace]_vars

\* C9: no committed state has two classes with the same class-teacher, also
\* when assignments of one teacher to two classes both pass the conflict
\* check before either commits.
C9_NoTwoClassesCommitted == \A c1, c2 \in ClassIds : (c1 # c2 /\ class_teacher_id[c1] # NULL) => class_teacher_id[c1] # class_teacher_id[c2]

(***************************************************************************)
(* Subject mappings and enrolments, one request at a time                  *)
(***************************************************************************)

MapSubject == \E u \in {"a1", "t3", "s1"}, c \in {"cA", "cC"}, sub \in {"subj1", "subj2"}, teacher \in {NULL, "t1"}, optional \in BOOLEAN : add_subject_to_class(u, c, sub, teacher, optional)

Enrol == \E u \in {"t1", "s1", "p1"}, student \in {"s1", "t3"}, cs \in {<<"cA", "subj1", 1>>, <<"cC", "subj2", 1>>} : assign_optional_subject(u, student, cs)

BulkEnrol == \E u \in {"a1", "s1", "p1"}, cs \in {<<"cA", "subj1", 1>>, <<"cC", "subj2", 1>>}, student_ids \in {<<>>, <<"s1">>, <<"s2", "s1">>, <<"s2", "p1">>} : bulk_assign_optional_subject(u, cs, student_ids)

NextSubjects == MapSubject \/ Enrol \/ BulkEnrol

SpecSubjects == Init /\ [][NextSubjects]_vars

\* C10: a request of the assignment engine made by a student or a parent (a
\* role no operation allows) is rejected and changes nothing: it creates and
\* deletes no ClassSubject and no StudentSubject row.
C10_StudentsAndParentsRejected == (last.op \in {"map_subject", "enrol", "bulk_enrol", "assign", "unassign"} /\ school_users[last.caller].role \in {STUDENT, PARENT}) => (last.status # "200" /\ class_subjects = before.class_subjects /\ student_subjects = before.student_subjects)

(***************************************************************************)
(* Subject mappings and their teachers, one request at a time              *)
(***************************************************************************)

MapSubjectAny == \E u \in {"a1", "s1"}, c \in {"cA", "cC"}, sub \in {"subj1", "subj2"}, teacher \in {NULL, "t1", "t3"}, optional \in BOOLEAN : add_subject_to_class(u, c, sub, teacher, optional)

BulkMap == \E u \in {"a1", "p1"}, c \in {"cA", "cC"}, subjects \in ItemLists : bulk_add_subjects_to_class(u, c, subjects)

AssignSubjectTeacher == \E u \in {"a1", "t1"}, T \in {"t1", "t3", "s1"}, cs \in {<<"cA", "subj1", 1>>, <<"cC", "subj2", 1>>} : assign_teacher_to_subject(u, T, cs)

NextMap == MapSubjectAny \/ BulkMap \/ AssignSubjectTeacher

SpecMap == Init /\ [][NextMap]_vars

\* The tenant of user x (none for an id that is no user).
TenantOf(x) == IF x \in DOMAIN school_users THEN school_users[x].school_id ELSE "none"

\* C11: a request that maps a subject to a class with a teacher of another
\* tenant than the caller's is rejected and changes nothing; in every
\* reachable state the teacher of a ClassSubject row, when set, is of the
\* tenant of the row's class and of the row's subject.
C11_TeacherOfTheTenant == ((last.op = "map_subject" /\ last.teacher_id # NULL /\ TenantOf(last.teacher_id) # TenantOf(last.caller)) => (last.status # "200" /\ class_subjects = before.class_subjects)) /\ (\A r \in class_subjects : r.teacher_id # NULL => (TenantOf(r.teacher_id) = school_classes[r.class_id] /\ TenantOf(r.teacher_id) = school_subjects[r.subject_id]))

\* The caller may map subjects and the class and the subject are of the
\* caller's tenant.
MayMap(sub) == school_users[last.caller].role \in {SCHOOL_ADMIN, SCHOOL_SUPERADMIN, TEACHER} /\ school_classes[last.class_id] = TenantOf(last.caller) /\ school_subjects[sub] = TenantOf(last.caller)

\* C12: add_subject_to_class for a (class, subject) pair that is mapped
\* creates no row and leaves the existing row (its optional flag and its
\* teacher) as it was, answering a permitted caller with a conflict; after
\* any sequence of map and bulk-map requests no pair has two rows.
C12_NoDuplicateMapping == (\A r1, r2 \in class_subjects : (r1.class_id = r2.class_id /\ r1.subject_id = r2.subject_id) => r1 = r2) /\ ((last.op = "map_subject" /\ \E r \in before.class_subjects : r.class_id = last.class_id /\ r.subject_id = last.body.subject_id) => (last.status # "200" /\ class_subjects = before.class_subjects /\ (MayMap(last.body.subject_id) => last.status = "409")))

\* C12 witness: a second mapping of a pair, with another optional flag and
\* another teacher than the row has, is refused with a conflict.
C12_Witness == last.op = "map_subject" /\ last.status = "409" /\ class_subjects = before.class_subjects /\ \E r \in class_subjects : r.class_id = last.class_id /\ r.subject_id = last.body.subject_id /\ r.is_optional # last.body.is_optional /\ r.teacher_id # last.teacher_id

\* The subjects of the items of a bulk request that are not skipped: they
\* exist, are of the tenant of the class and were not mapped to the class.
Remaining(items, c, old) == {sub \in {items[i].subject_id : i \in DOMAIN items} : sub \in DOMAIN school_subjects /\ school_subjects[sub] = school_classes[c] /\ \A r \in old : ~(r.class_id = c /\ r.subject_id = sub)}

\* The optional flag of the first item that names subject sub.
FirstFlag(items, sub) == items[CHOOSE i \in DOMAIN items : items[i].subject_id = sub /\ \A j \in DOMAIN items : items[j].subject_id = sub => i <= j].is_optional

\* C18: bulk_add_subjects_to_class by a permitted caller for a class of its
\* tenant does not fail; it creates one row for each subject of the items
\* that are not skipped and no other row, leaves the rows that existed as
\* they were and returns exactly the rows it created.
C18_BulkSkipsAndCreates == (last.op = "bulk_map" /\ school_users[last.caller].role \in {SCHOOL_ADMIN, SCHOOL_SUPERADMIN, TEACHER} /\ school_classes[last.class_id] = TenantOf(last.caller)) => (last.status = "200" /\ before.class_subjects \subseteq class_subjects /\ last.result = class_subjects \ before.class_subjects /\ {r.subject_id : r \in last.result} = Remaining(last.body, last.class_id, before.class_subjects) /\ Cardinality(last.result) = Cardinality(Remaining(last.body, last.class_id, before.class_subjects)) /\ \A r \in last.result : r.class_id = last.class_id /\ r.is_optional = FirstFlag(last.body, r.subject_id))

\* C18 witness: a bulk request creates a mapping and skips an item whose
\* subject is mapped to the class already.
C18_Witness == last.op = "bulk_map" /\ last.status = "200" /\ last.result # {} /\ Len(last.body) > Cardinality(last.result) /\ (\E i \in DOMAIN last.body : \E r \in before.class_subjects : r.class_id = last.class_id /\ r.subject_id = last.body[i].subject_id) /\ before.class_subjects # {}

\* The requests of the enrolment specification: mappings of both tenants,
\* optional or not, without a teacher.
MapOptional == \E u \in {"a1", "t3"}, c \in {"cA", "cC"}, sub \in {"subj1", "subj2"}, optional \in BOOLEAN : add_subject_to_class(u, c, sub, NULL, optional)

EnrolAny == \E u \in {"t1", "t3", "s1"}, student \in {"s1", "s2", "t3", "s9"}, cs \in {<<"cA", "subj1", 1>>, <<"cC", "subj2", 1>>} : assign_optional_subject(u, student, cs)

BulkEnrolAny == \E u \in {"a1", "t3"}, cs \in {<<"cA", "subj1", 1>>, <<"cC", "subj2", 1>>}, student_ids \in {<<>>, <<"s1">>, <<"p1">>, <<"s2", "p1">>, <<"t3", "s9">>} : bulk_assign_optional_subject(u, cs, student_ids)

RemoveEnrolment == \E u \in {"t1", "t3", "p1"}, assignment_id \in {<<"s1", <<"cA", "subj1", 1>>, 1>>, <<"t3", <<"cC", "subj2", 1>>, 1>>} : remove_optional_subject(u, assignment_id)

RemoveMapping == \E u \in {"a1", "t1"}, mapping_id \in {<<"cA", "subj1", 1>>, <<"cC", "subj2", 1>>} : remove_subject_from_class(u, mapping_id)

NextEnrol == MapOptional \/ EnrolAny \/ BulkEnrolAny \/ RemoveEnrolment \/ RemoveMapping

SpecEnrol == Init /\ [][NextEnrol]_vars

\* The mappings of rows with id cs that are optional and of a class of the
\* tenant of user x.
OptionalOfTenant(rows, cs, x) == {m \in rows : m.id = cs /\ m.is_optional /\ school_classes[m.class_id] = TenantOf(x)}

\* The enrolments of rows for student x in mapping cs.
EnrolmentsOf(rows, x, cs) == {r \in rows : r.student_id = x /\ r.class_subject_id = cs}

\* C13: assign_optional_subject creates a row only when the mapping is
\* optional and the student and the mapping's class are of the caller's
\* tenant; a permitted caller's first request for such a pair succeeds and
\* creates its row, a request for a pair that is enrolled fails (with a
\* conflict for a permitted caller of the student's tenant) and creates
\* nothing, and no pair ever has two rows.
C13_EnrolOnceOnly == (\A r1, r2 \in student_subjects : (r1.student_id = r2.student_id /\ r1.class_subject_id = r2.class_subject_id) => r1 = r2) /\ (last.op = "enrol" => (/\ (student_subjects # before.student_subjects => (last.status = "200" /\ student_subjects = before.student_subjects \cup {last.result} /\ last.result.student_id = last.body.student_id /\ last.result.class_subject_id = last.body.class_subject_id /\ OptionalOfTenant(before.class_subjects, last.body.class_subject_id, last.caller) # {} /\ TenantOf(last.body.student_id) = TenantOf(last.caller))) /\ (EnrolmentsOf(before.student_subjects, last.body.student_id, last.body.class_subject_id) # {} => (last.status # "200" /\ student_subjects = before.student_subjects /\ ((school_users[last.caller].role \in {TEACHER, SCHOOL_ADMIN, SCHOOL_SUPERADMIN} /\ TenantOf(last.body.student_id) = TenantOf(last.caller)) => last.status = "409"))) /\ ((EnrolmentsOf(before.student_subjects, last.body.student_id, last.body.class_subject_id) = {} /\ school_users[last.caller].role \in {TEACHER, SCHOOL_ADMIN, SCHOOL_SUPERADMIN} /\ TenantOf(last.body.student_id) = TenantOf(last.caller) /\ OptionalOfTenant(before.class_subjects, last.body.class_subject_id, last.caller) # {}) => (last.status = "200" /\ Cardinality(EnrolmentsOf(student_subjects, last.body.student_id, last.body.class_subject_id)) = 1))))

\* C13 witness: the second enrolment of a student in a mapping is refused
\* with a conflict and the pair keeps its one row.
C13_Witness == last.op = "enrol" /\ last.status = "409" /\ student_subjects = before.student_subjects /\ Cardinality(EnrolmentsOf(student_subjects, last.body.student_id, last.body.class_subject_id)) = 1

\* The submitted ids of a bulk enrolment.
Submitted == {last.body.student_ids[i] : i \in DOMAIN last.body.student_ids}

\* The submitted ids that are users of the caller's tenant and of the class
\* of the mapping.
OfTenantAndClass == {x \in Submitted : x \in DOMAIN school_users /\ TenantOf(x) = TenantOf(last.caller) /\ \E m \in OptionalOfTenant(before.class_subjects, last.body.class_subject_id, last.caller) : school_users[x].class_id = m.class_id}

\* The ids of the failed list of the response with reason why.
FailedWith(why) == {last.result.failed[i].student_id : i \in {j \in DOMAIN last.result.failed : last.result.failed[j].reason = why}}

\* C19: a bulk enrolment into an optional mapping of the caller's tenant
\* answers with the three partitions: success holds the ids of the tenant
\* and the class that were not enrolled, each with exactly one new row;
\* 'Already assigned' holds those that were enrolled; 'Invalid student'
\* holds the ids outside the tenant or the class; no row is created for a
\* failed id.
C19_BulkPartitions == (last.op = "bulk_enrol" /\ OptionalOfTenant(before.class_subjects, last.body.class_subject_id, last.caller) # {}) => (/\ last.status = "200" /\ last.result.success = {x \in OfTenantAndClass : EnrolmentsOf(before.student_subjects, x, last.body.class_subject_id) = {}} /\ FailedWith("Already assigned") = {x \in OfTenantAndClass : EnrolmentsOf(before.student_subjects, x, last.body.class_subject_id) # {}} /\ FailedWith("Invalid student") = Submitted \ OfTenantAndClass /\ before.student_subjects \subseteq student_subjects /\ {r.student_id : r \in student_subjects \ before.student_subjects} = last.result.success /\ Cardinality(student_subjects \ before.student_subjects) = Cardinality(last.result.success))

\* The rows a removal request deleted.
DeletedMappings == before.class_subjects \ class_subjects

DeletedEnrolments == before.student_subjects \ student_subjects

\* C20: a removal request adds nothing and deletes only the row it names,
\* and only when the mapping, its class and its subject, the enrolment and
\* its student are of the caller's tenant; a request that is not answered
\* with success deletes nothing.
C20_RemovesOwnTenantOnly == last.op \in {"remove_mapping", "remove_enrolment"} => (/\ class_subjects \subseteq before.class_subjects /\ student_subjects \subseteq before.student_subjects /\ (last.status # "200" => (DeletedMappings = {} /\ DeletedEnrolments = {})) /\ (\A m \in DeletedMappings : last.op = "remove_mapping" /\ m.id = last.body.mapping_id /\ school_classes[m.class_id] = TenantOf(last.caller) /\ school_subjects[m.subject_id] = TenantOf(last.caller)) /\ (\A r \in DeletedEnrolments : last.op = "remove_enrolment" /\ r.id = last.body.assignment_id /\ TenantOf(r.student_id) = TenantOf(last.caller) /\ \E m \in before.class_subjects : m.id = r.class_subject_id /\ school_classes[m.class_id] = TenantOf(last.caller) /\ school_subjects[m.subject_id] = TenantOf(last.caller)))

\* C20 witness: a teacher removes an enrolment of the own tenant while an
\* enrolment of the other tenant exists and stays.
C20_Witness == last.op = "remove_enrolment" /\ last.status = "200" /\ DeletedEnrolments # {} /\ \E r \in student_subjects : TenantOf(r.student_id) # TenantOf(last.caller)

\* C17: after any sequence of assign_class_teacher and unassign_class_teacher
\* requests run one at a time from the initial state, the profile flag
\* isClassteacher of a user is true exactly when some class has that user as
\* its class-teacher.
C17_FlagFollowsReference == \A T \in DOMAIN school_users : (isClassteacher[T] = "true") <=> (ClassesOf(T) # {})

\* C17 witness: an assignment replaces the class-teacher of a class; the flag
\* of the new holder is set and the flag of the replaced holder is cleared.
C17_Witness == last.op = "assign" /\ last.status = "200" /\ before.class_teacher_id[last.class_id] \notin {NULL, last.teacher_id} /\ isClassteacher[last.teacher_id] = "true" /\ isClassteacher[before.class_teacher_id[last.class_id]] = "false" /\ before.isClassteacher[before.class_teacher_id[last.class_id]] = "true"

(***************************************************************************)
(* Attendance batches in flight while the roster grows                     *)
(***************************************************************************)

NextBatch == RecordRead \/ RecordCommit \/ AssignTeacherOfA \/ RegisterStudentOfA

SpecBatch == Init /\ [][NextBatch]_vars

\* The commit of session s wrote every row of its batch: each new row is in
\* the table with the assigned values, and each loaded row holds the assigned
\* value in every column the request changed.
BatchWritten(s) == \A p \in s.pending : IF p.existing = {} THEN \E r \in attendances' \ attendances : r.class_id = s.class_id /\ r.date = s.date /\ r.student_id = p.student_id /\ r.status = p.new.status /\ r.arrival_time = p.new.arrival_time /\ r.notes = p.new.notes /\ r.recorded_by = p.new.recorded_by ELSE \A e \in p.existing : \E r \in attendances' : r.id = e.id /\ (p.new.status # e.status => r.status = p.new.status) /\ (p.new.arrival_time # e.arrival_time => r.arrival_time = p.new.arrival_time) /\ (p.new.notes # e.notes => r.notes = p.new.notes) /\ (p.new.recorded_by # e.recorded_by => r.recorded_by = p.new.recorded_by)

\* C14: the commit of a record_daily_attendance request either writes every
\* insert and update of its batch and answers success, or answers one error
\* and leaves the attendance table as it was: no step writes a part of a
\* batch.
C14_AtomicBatch == [][\A s \in inflight : (s.op = "record" /\ s \notin inflight') => ((last'.status = "200" /\ BatchWritten(s)) \/ (last'.status = "500" /\ attendances' = attendances))]_vars

\* C14 witness: the commit of a batch for a roster of three was rejected
\* because of one student's row; every student has the one row another
\* request wrote and a submitted value of the rejected batch is not in it.
C14_Witness == last.op = "record" /\ last.status = "500" /\ attendances = before.attendances /\ Cardinality(Roster(last.class_id)) = 3 /\ (\A x \in Roster(last.class_id) : Cardinality(RowsFor(attendances, last.class_id, last.date, x)) = 1) /\ \E i \in DOMAIN last.records : \E r \in RowsFor(attendances, last.class_id, last.date, last.records[i].student_id) : r.status # last.records[i].status

(***************************************************************************)
(* Two classes and their rosters: cA has two active students, cB has one  *)
(* inactive student until a student is registered into it                  *)
(***************************************************************************)

\* Records for a student of cA, for the id a registration gives, for the
\* inactive student of cB, for a teacher and for an id no user has.
RosterRecordPool == {[student_id |-> "s1", status |-> ABSENT, arrival_time |-> NULL, notes |-> "sick"], [student_id |-> "s3", status |-> HALF_DAY, arrival_time |-> NULL, notes |-> NULL], [student_id |-> "s4", status |-> LEAVE, arrival_time |-> NULL, notes |-> NULL], [student_id |-> "t2", status |-> PRESENT, arrival_time |-> "09:30", notes |-> NULL], [student_id |-> "s9", status |-> ABSENT, arrival_time |-> NULL, notes |-> NULL]}

RosterRecordLists == UNION {[1..n -> RosterRecordPool] : n \in 0..MaxRecords}

AssignTeachersOfAB == \E Tc \in {<<"t1", "cA">>, <<"t2", "cB">>} : assign_class_teacher("a1", Tc[1], Tc[2])

RegisterStudentOfB == register_student("a1", [email |-> "s3@x", role |-> STUDENT, school_id |-> "S1", class_id |-> "cB"])

RecordOfAB == \E u \in {"t1", "t2"}, c \in {"cA", "cB"}, d \in {1}, lists \in {RosterRecordLists} : record_daily_attendance(u, c, d, lists)

NextRoster == AssignTeachersOfAB \/ RegisterStudentOfB \/ RecordOfAB

SpecRoster == Init /\ [][NextRoster]_vars

\* The active roster of class c as the last request found it.
RosterBefore(c) == {s \in DOMAIN before.school_users : before.school_users[s].role = STUDENT /\ before.school_users[s].class_id = c /\ before.school_users[s].is_active}

\* C15: record_daily_attendance for a class without an active student is
\* answered with an error and writes no attendance row.
C15_EmptyRosterRejected == (last.op = "record" /\ RosterBefore(last.class_id) = {}) => (last.status \notin {"200", "none"} /\ attendances = before.attendances)

\* C15 witness: the class-teacher of a class whose only student is inactive
\* submits for it and is answered 404; nothing is written.
C15_Witness == last.op = "record" /\ last.status = "404" /\ class_teacher_id[last.class_id] = last.caller /\ RosterBefore(last.class_id) = {} /\ (\E x \in DOMAIN school_users : school_users[x].class_id = last.class_id /\ school_users[x].role = STUDENT /\ ~school_users[x].is_active) /\ attendances = before.attendances

\* The submitted records of the last request that name a roster student.
RosterRecords == SelectSeq(last.records, LAMBDA r : r.student_id \in RosterBefore(last.class_id))

\* C16: a request of the class-teacher for a class with active students is
\* answered with success whatever ids its records name; no attendance row
\* of an id outside the roster is created or changed, and the rows of the
\* class and date are those the request writes with its roster records
\* alone: per roster student one row with the values of the student's last
\* roster record, or present without arrival time and note.
C16_NonRosterIgnored == (last.op = "record" /\ before.class_teacher_id[last.class_id] = last.caller /\ RosterBefore(last.class_id) # {}) => (/\ last.status = "200" /\ (\A i \in DOMAIN last.records : last.records[i].student_id \notin RosterBefore(last.class_id) => {r \in attendances : r.student_id = last.records[i].student_id} = {r \in before.attendances : r.student_id = last.records[i].student_id}) /\ {r.student_id : r \in {q \in attendances : q.class_id = last.class_id /\ q.date = last.date}} = RosterBefore(last.class_id) /\ (\A x \in RosterBefore(last.class_id) : \A r \in RowsFor(attendances, last.class_id, last.date, x) : Values(r) = (IF SubmittedFor(RosterRecords, x) = {} THEN <<PRESENT, NULL, NULL>> ELSE LET rec == AttendanceInputMap(RosterRecords)[x] IN <<rec.status, rec.arrival_time, rec.notes>>)))

\* C16 witness: a successful request named a roster student and an id
\* outside the roster; the roster has its rows and that id has none.
C16_Witness == RecordedOk /\ (\E i \in DOMAIN last.records : last.records[i].student_id \in RosterBefore(last.class_id)) /\ (\E i \in DOMAIN last.records : last.records[i].student_id \notin RosterBefore(last.class_id) /\ \A r \in attendances : r.student_id # last.records[i].student_id) /\ \A x \in RosterBefore(last.class_id) : Cardinality(RowsFor(attendances, last.class_id, last.date, x)) = 1

(***************************************************************************)
(* The attendance register over time                                       *)
(***************************************************************************)

\* Date d is before the day that precedes the UTC day of the hour.
Closed(d, hour) == d < (hour \div 24) - 1

\* The attendance rows of date d.
RowsOfDate(rows, d) == {r \in rows : r.date = d}

\* C21: no step deletes an attendance row; and once a date is closed by the
\* recency gate it stays closed as the clock advances, every later
\* record_daily_attendance request for it is rejected and its rows never
\* change again.
C21_ClosedDatesStayClosed == [][(\A r \in attendances : \E q \in attendances' : q.id = r.id) /\ \A d \in Dates : Closed(d, now) => (Closed(d, now') /\ RowsOfDate(attendances', d) = RowsOfDate(attendances, d) /\ ((last' # last /\ last'.op = "record" /\ last'.date = d) => last'.status \notin {"200", "none"}))]_vars

\* C21 witness: the class-teacher recorded a date while it was open; twelve
\* hours after the gate closed the date, the class-teacher's request for it is
\* answered with the bad request of the gate and the rows are as they were.
C21_Witness == last.op = "record" /\ last.status = "400" /\ class_teacher_id[last.class_id] = last.caller /\ Closed(last.date, last.at - 12) /\ RowsOfDate(attendances, last.date) # {} /\ attendances = before.attendances

(***************************************************************************)
(* Logins, tokens and the requests that carry them                         *)
(***************************************************************************)

\* Minutes the clock of this specification advances.
MaxMinutes == 100

\* Tokens the clients hold together.
MaxTokens == 2

MinutesPass == UtcNowMinutes + 20 <= 36 * 60 + MaxMinutes /\ Minutes

\* Logins with a known and an unknown email, a right and a wrong password.
LoginAny == Cardinality(tokens) < MaxTokens /\ \E email \in {"a1@x", "zz@x"}, password \in {<<"pw", "a1">>, <<"pw", "wrong">>} : school_user_login(email, password)

LoginSuperadmin == Cardinality(tokens) < MaxTokens /\ login_superadmin("root@x", <<"pw", "root">>)

\* What a request can carry besides a token a login gave: nothing, a string
\* that is no JWT, and the claims of an admin signed with another key.
OtherTokens == {Token("missing", NULL, NULL, NULL, NULL, NULL, 0), Token("malformed", NULL, NULL, NULL, NULL, NULL, 0), Token("jwt", "guess", "a1@x", SCHOOL_ADMIN, "a1", "S1", 36 * 60 + 1000)}

RegisterTeacherWithToken == \E token \in {g.jwt : g \in tokens} \cup OtherTokens : register_teacher(token, [email |-> "n1@x", role |-> TEACHER, school_id |-> "S1", class_id |-> NULL])

NextAuth == MinutesPass \/ LoginAny \/ LoginSuperadmin \/ RegisterTeacherWithToken

SpecAuth == Init /\ [][NextAuth]_vars

\* The request was answered by get_current_user and the handler did not run.
RejectedAtTheDoor == last.caller = NULL /\ last.status \in {"401", "400"} /\ school_users = before.school_users /\ Snapshot = before

\* C22: a request with a token school_user_login issued at minute t is let
\* in by get_current_user at every minute before t + 60 and answered 401 at
\* every minute after t + 60, whatever happened in between; a request whose
\* token is missing, is no JWT, is not signed with the key or lacks user id,
\* email or role is rejected and changes nothing.
C22_TokenLifetime == last.op = "register_teacher" => (/\ (\A g \in tokens : (g.jwt = last.body.token /\ g.jwt.user_id # NULL) => ((last.body.minutes < g.issued + 60 => last.caller = g.jwt.user_id) /\ (last.body.minutes > g.issued + 60 => (last.status = "401" /\ RejectedAtTheDoor)))) /\ ((last.body.token.kind # "jwt" \/ last.body.token.key # "secret" \/ last.body.token.user_id = NULL \/ last.body.token.sub = NULL \/ last.body.token.role = NULL) => RejectedAtTheDoor))

\* C22 witness: a token of the admin let a request in that registered a
\* teacher; eighty minutes after its login the token is refused.
C22_Witness == last.op = "register_teacher" /\ last.status = "401" /\ (\E g \in tokens : g.jwt = last.body.token /\ g.jwt.user_id = "a1" /\ last.body.minutes = g.issued + 80) /\ DOMAIN school_users # DOMAIN InitialUsers /\ school_users = before.school_users

\* C23: school_user_login answers an email that matches no user and a wrong
\* password for an email that matches one with the same response: status
\* 401, detail 'Invalid credentials', no token.
C23_SameInvalidCredentials == (last.op = "login" /\ (UserByEmail(last.body.email) = {} \/ \E u \in UserByEmail(last.body.email) : last.body.password # <<"pw", u>>)) => (last.status = "401" /\ last.result = [detail |-> "Invalid credentials", school_id |-> NULL, access_token |-> NULL])

\* C23 witness: a login with the email of a user and a wrong password is
\* answered 401.
C23_Witness == last.op = "login" /\ last.status = "401" /\ UserByEmail(last.body.email) # {} /\ last.result.detail = "Invalid credentials" /\ last.result.access_token = NULL

(***************************************************************************)
(* The three registration endpoints                                        *)
(***************************************************************************)

\* The superadmin, the admin and a teacher of school S1 log in.
LoginStaff == Cardinality(tokens) < MaxTokens /\ \E u \in {"sa1", "a1", "t1"} : school_user_login(school_users[u].email, <<"pw", u>>)

\* The request bodies of register_school_admin and register_teacher in the
\* model: a new and a used email, either role, either school.
StaffPayloads == [email : {"n1@x", "t1@x"}, role : {SCHOOL_ADMIN, TEACHER}, school_id : {"S1", "S2"}, class_id : {NULL}]

RegisterAdminAny == \E g \in tokens, payload \in StaffPayloads : register_school_admin(g.jwt, payload)

RegisterTeacherAny == \E g \in tokens, payload \in StaffPayloads : register_teacher(g.jwt, payload)

RegisterStudentAny == \E u \in {"a1", "t1"}, payload \in StudentPayloads : register_student(u, payload)

NextRegister == LoginStaff \/ RegisterAdminAny \/ RegisterTeacherAny \/ RegisterStudentAny

SpecRegister == Init /\ [][NextRegister]_vars

\* The users the last request created.
Created == DOMAIN school_users \ DOMAIN before.school_users

\* The roles the endpoint of the last request lets in, and the one role it
\* creates.
AllowedCallers == IF last.op = "register_admin" THEN {SCHOOL_SUPERADMIN} ELSE {SCHOOL_ADMIN, SCHOOL_SUPERADMIN}

TargetRole == IF last.op = "register_admin" THEN SCHOOL_ADMIN ELSE IF last.op = "register_teacher" THEN TEACHER ELSE STUDENT

\* The last registration request may create its user.
MayRegister == last.caller # NULL /\ before.school_users[last.caller].role \in AllowedCallers /\ last.body.payload.role = TargetRole /\ last.body.payload.school_id = before.school_users[last.caller].school_id /\ \A x \in DOMAIN before.school_users : before.school_users[x].email # last.body.payload.email

\* C24: a registration endpoint creates a user exactly when the caller's
\* role is allowed for it, the payload's role is the endpoint's target role,
\* the payload's school is the caller's and the email is unused; the user
\* it creates has the target role, the caller's school and the payload's
\* email; no other user changes, and no two users share an email.
C24_RegistrationScoped == (\A x, y \in DOMAIN school_users : school_users[x].email = school_users[y].email => x = y) /\ (last.op \in {"register_admin", "register_teacher", "register_student"} => (/\ (\A x \in DOMAIN before.school_users : x \in DOMAIN school_users /\ school_users[x] = before.school_users[x]) /\ (Created # {} <=> MayRegister) /\ (MayRegister <=> last.status = "200") /\ Cardinality(Created) <= 1 /\ (\A z \in Created : school_users[z].role = TargetRole /\ school_users[z].school_id = before.school_users[last.caller].school_id /\ school_users[z].email = last.body.payload.email)))

\* C24 witness: an admin registers a teacher of its school after another
\* user was registered; the store has two new users.
C24_Witness == last.op = "register_teacher" /\ last.status = "200" /\ Created # {} /\ Cardinality(DOMAIN school_users \ DOMAIN InitialUsers) = 2

(***************************************************************************)
(* Reads across tenants                                                    *)
(***************************************************************************)

ReadClasses == \E u \in {"a1", "t3", "s1"}, school_id \in {"S1", "S2"} : get_all_classes_with_sections(u, school_id)

ReadSubjects == \E u \in {"a1", "t3", "p1"}, c \in {"cA", "cC"} : get_subjects_for_class(u, c)

NextRead == MapOptional \/ ReadClasses \/ ReadSubjects

SpecRead == Init /\ [][NextRead]_vars

\* C25: what a read endpoint returns to a caller is of the caller's tenant:
\* the classes of get_all_classes_with_sections and the mappings of
\* get_subjects_for_class are classes, or mappings of classes, of that
\* tenant.
C25_ReadsOwnTenantOnly == (last.op = "get_classes" => \A c \in last.result : school_classes[c] = TenantOf(last.caller)) /\ (last.op = "get_subjects" => \A r \in last.result : school_classes[r.class_id] = TenantOf(last.caller))

(***************************************************************************)
(* Enrolments and their mappings                                           *)
(***************************************************************************)

\* The enrolments of a mapping.
EnrolledIn(rows, mapping_id) == {r \in rows : r.class_subject_id = mapping_id}

\* C26: every student_subjects row references a class_subjects row that
\* exists; remove_subject_from_class on a mapping that has enrolments either
\* is answered with an error and leaves mapping and enrolments as they were,
\* or removes the enrolments with the mapping.
C26_EnrolmentsKeepTheirMapping == (\A r \in student_subjects : \E m \in class_subjects : m.id = r.class_subject_id) /\ ((last.op = "remove_mapping" /\ EnrolledIn(before.student_subjects, last.body.mapping_id) # {}) => ((last.status # "200" /\ class_subjects = before.class_subjects /\ student_subjects = before.student_subjects) \/ ((\A m \in class_subjects : m.id # last.body.mapping_id) /\ EnrolledIn(student_subjects, last.body.mapping_id) = {})))

\* An admin's removal of a mapping with an enrolment has been answered with
\* an error; mapping and enrolment are still there.
C26_Witness == last.op = "remove_mapping" /\ school_users[last.caller].role = SCHOOL_ADMIN /\ last.status # "200" /\ EnrolledIn(student_subjects, last.body.mapping_id) # {} /\ \E m \in class_subjects : m.id = last.body.mapping_id

(***************************************************************************)
(* Two submissions for a day that has its rows                             *)
(***************************************************************************)

MixLists == {<<>>, <<CHOOSE r \in RecordPool : r.student_id = "s1" /\ r.status = ABSENT>>, <<CHOOSE r \in RecordPool : r.student_id = "s2" /\ r.status = LEAVE>>}

MixRead == \E sid \in FreeSessions, u \in {"t1"}, c \in {"cA"}, d \in {1}, records \in MixLists : record_daily_attendance_read(sid, u, c, d, records)

NextRecordMix == MixRead \/ RecordCommit \/ AssignTeacherOfA

SpecRecordMix == Init /\ [][NextRecordMix]_vars

\* The status of each student in the rows of a class and date.
StatusesOf(rows, c, d) == {<<r.student_id, r.status>> : r \in {x \in rows : x.class_id = c /\ x.date = d}}

\* The statuses a submission gives the roster when it is applied alone.
StatusesAlone(records, c) == {<<x, EffectiveValues(AttendanceInputMap(records), x, NULL).status>> : x \in Roster(c)}

\* C27: when a submission for a class and date whose rows exist commits, the
\* statuses of that class and date are those of one submission applied
\* alone: the committing one, or the one committed just before it for the
\* same class and date; never a mixture of the two.
C27_NoMixedStatuses == [][\A s \in inflight : (s.op = "record" /\ s \notin inflight' /\ last'.status = "200" /\ \A p \in s.pending : p.existing # {}) => (\/ StatusesOf(attendances', s.class_id, s.date) = StatusesAlone(s.records, s.class_id) \/ (last.op = "record" /\ last.status = "200" /\ last.class_id = s.class_id /\ last.date = s.date /\ StatusesOf(attendances', s.class_id, s.date) = StatusesAlone(last.records, s.class_id)))]_vars

(***************************************************************************)
(* Two assignments of different teachers to one class                      *)
(***************************************************************************)

\* C28: when an assignment of T2 to a class commits right after an assignment
\* of T1 to the same class that it did not see (the class row it loaded is
\* not the committed one), then of T1 and T2 exactly the teacher the class
\* references has isClassteacher true.
C28_FlagFollowsClass == [][\A s \in inflight : (s.op = "assign" /\ s \notin inflight' /\ last'.status = "200" /\ last.op = "assign" /\ last.status = "200" /\ last.class_id = s.class_id /\ last.teacher_id # s.teacher_id /\ s.old # class_teacher_id[s.class_id]) => (\A T \in {s.teacher_id, last.teacher_id} : (isClassteacher'[T] = "true") <=> (class_teacher_id'[s.class_id] = T))]_vars

(***************************************************************************)
(* Attendance rows and the tenants of their class and student              *)
(***************************************************************************)

\* The populated store with an administrator of school S2 as well.
UsersOfTwoSchools == ("a2" :> [role |-> SCHOOL_ADMIN, school_id |-> "S2", class_id |-> NULL, is_active |-> TRUE, email |-> "a2@x"]) @@ InitialUsers

InitTwoSchools ==
    /\ now = 36
    /\ minute = 0
    /\ tokens = {}
    /\ school_users = UsersOfTwoSchools
    /\ class_teacher_id = [c \in ClassIds |-> NULL]
    /\ isClassteacher = [u \in UserIds \cup {"a2"} |-> "unset"]
    /\ attendances = {}
    /\ class_subjects = {}
    /\ student_subjects = {}
    /\ inflight = {}
    /\ last = NoRequest
    /\ before = [school_users |-> UsersOfTwoSchools, class_teacher_id |-> [c \in ClassIds |-> NULL], isClassteacher |-> [u \in UserIds \cup {"a2"} |-> "unset"], attendances |-> {}, class_subjects |-> {}, student_subjects |-> {}]

AssignTeachersOfAC == \E uTc \in {<<"a1", "t1", "cA">>, <<"a2", "t3", "cC">>} : assign_class_teacher(uTc[1], uTc[2], uTc[3])

RegisterStudentOfAC == \E u \in {"a1", "a2"}, c \in {"cA", "cC"} : register_student(u, [email |-> "s3@x", role |-> STUDENT, school_id |-> "S1", class_id |-> c])

RecordOfAC == \E u \in {"t1", "t3"}, c \in {"cA", "cC"}, d \in {1}, lists \in {RosterRecordLists} : record_daily_attendance(u, c, d, lists)

NextTenant == AssignTeachersOfAC \/ RegisterStudentOfAC \/ RecordOfAC

SpecTenant == InitTwoSchools /\ [][NextTenant]_vars

\* C29: the tenant of every attendance row is the tenant of the row's class
\* and the tenant of the row's student.
C29_RowTenantIsClassAndStudentTenant == \A r \in attendances : r.school_id = school_classes[r.class_id] /\ r.school_id = school_users[r.student_id].school_id

(***************************************************************************)
(* Enrolments and the class of the student                                 *)
(***************************************************************************)

MapOptionalOfAB == \E c \in {"cA", "cB"}, optional \in BOOLEAN : add_subject_to_class("a1", c, "subj1", NULL, optional)

EnrolOfAB == \E u \in {"t1", "s1"}, student \in {"s1", "s2", "s4"}, cs \in {<<"cA", "subj1", 1>>, <<"cB", "subj1", 1>>} : assign_optional_subject(u, student, cs)

BulkEnrolOfAB == \E cs \in {<<"cA", "subj1", 1>>, <<"cB", "subj1", 1>>}, student_ids \in {<<>>, <<"s1">>, <<"s4">>, <<"s1", "s4">>} : bulk_assign_optional_subject("t1", cs, student_ids)

NextPairs == MapOptionalOfAB \/ EnrolOfAB \/ BulkEnrolOfAB

SpecPairs == Init /\ [][NextPairs]_vars

\* C30: every student_subjects row links a student of a class to a mapping
\* of that same class.
C30_EnrolledInOwnClass == \A r \in student_subjects : \E m \in class_subjects : m.id = r.class_subject_id /\ school_users[r.student_id].role = STUDENT /\ school_users[r.student_id].class_id = m.class_id

====
